---- MODULE Spec2Model ----
(***************************************************************************)
(* Swiss tournament engine of RepChessTgApp: the pairing engine of         *)
(* src/lib/pairing.ts behind the pairings route, the withdraw / restore    *)
(* handlers and the standings of src/lib/tiebreakers.ts.                   *)
(*                                                                         *)
(* All scores are kept in half points (1 point = 2), so that 0.5 is the    *)
(* integer 1 and every sum the code forms is an integer.                   *)
(***************************************************************************)
EXTENDS Integers, Sequences, FiniteSets, TLC

\* ----- bounds of the model -----
\* Spec: registered participants, planned rounds, participants withdrawn at
\* the same time
MaxParticipants == 4
MaxRounds == 3
MaxInactive == 1
\* SpecLong: a longer tournament of more participants, nobody withdraws
LongParticipants == 6
LongRounds == 4

\* ----- small helpers -----
Ids == 1..(IF MaxParticipants > LongParticipants THEN MaxParticipants
           ELSE LongParticipants)

Abs(x) == IF x < 0 THEN 0 - x ELSE x

Range(s) == {s[i] : i \in 1..Len(s)}

RECURSIVE SeqOfSet(_)
\* the elements of a set of integers in ascending order (row order of the
\* participants table: ascending id)
SeqOfSet(S) ==
  IF S = {} THEN <<>>
  ELSE LET m == CHOOSE x \in S : \A y \in S : x <= y
       IN <<m>> \o SeqOfSet(S \ {m})

RECURSIVE SumSeq(_)
SumSeq(s) == IF s = <<>> THEN 0 ELSE Head(s) + SumSeq(Tail(s))

RemoveAt(s, i) == SubSeq(s, 1, i - 1) \o SubSeq(s, i + 1, Len(s))

\* ----- the database and the last response -----
VARIABLES
  registered,    \* ids of the rows of tournament_participants
  active,        \* tournament_participants.active, per id
  rating,        \* users.rating of each participant
  byePointsCfg,  \* tournaments.bye_points, in half points
  plannedRounds, \* tournaments.rounds
  rounds,        \* rows of rounds, in creation order: [number, status]
  matches,       \* rows of matches, in insertion order
  response,      \* outcome of the last request
  engineCalls,   \* per round generateSwissPairings was called for: the
                 \* participants its latest call loaded
  lastCall       \* what the last engine call was given and what it emitted

vars == <<registered, active, rating, byePointsCfg, plannedRounds, rounds, matches,
          response, engineCalls, lastCall>>

\* ----- Player: the per-call view of one participant (pairing.ts) -----

\* result label of a match row for the white side and for the black side
WhiteLabel(result) ==
  IF result \in {"white", "forfeit_black"} THEN "win"
  ELSE IF result \in {"black", "forfeit_white"} THEN "loss"
  ELSE IF result = "draw" THEN "draw" ELSE "bye"

BlackLabel(result) ==
  IF result \in {"black", "forfeit_white"} THEN "win"
  ELSE IF result \in {"white", "forfeit_black"} THEN "loss"
  ELSE IF result = "draw" THEN "draw" ELSE "bye"

RECURSIVE PlayerRounds(_, _)
\* playerData.rounds of p: one record per match row of ms that names p, in
\* the order of the rows (black = 0 is the null of a bye row)
PlayerRounds(p, ms) ==
  IF ms = <<>> THEN <<>>
  ELSE LET m == Head(ms)
           rec == IF m.white = p
                  THEN <<[opponent |-> m.black,
                          color |-> IF m.black # 0 THEN "w" ELSE "none",
                          result |-> WhiteLabel(m.result)]>>
                  ELSE IF m.black = p
                  THEN <<[opponent |-> m.white, color |-> "b",
                          result |-> BlackLabel(m.result)]>>
                  ELSE <<>>
       IN rec \o PlayerRounds(p, Tail(ms))

RECURSIVE PlayerScore(_, _)
\* playerData.score of p over the rows ms
PlayerScore(p, ms) ==
  IF ms = <<>> THEN 0
  ELSE LET m == Head(ms)
       IN (IF m.white = p THEN m.score_white ELSE 0)
          + (IF m.black = p THEN m.score_black ELSE 0)
          + PlayerScore(p, Tail(ms))

\* pd.buchholz: the scores of the opponents that are in the player map
PlayerBuchholz(p, roster, ms) ==
  LET rs == PlayerRounds(p, ms)
  IN SumSeq([i \in 1..Len(rs) |->
        IF rs[i].opponent # 0 /\ rs[i].opponent \in roster
        THEN PlayerScore(rs[i].opponent, ms) ELSE 0])

CountColor(rs, c) == Cardinality({i \in 1..Len(rs) : rs[i].color = c})

\* lastColor after the constructor's loop: the color of the last record
LastColor(rs) == IF rs = <<>> THEN "none" ELSE rs[Len(rs)].color

updateColorPreference(whiteCount, blackCount, lastColor, rs) ==
  LET diff == whiteCount - blackCount
      n == Len(rs)
      lastTwoSameColor == /\ n >= 2
                          /\ rs[n].color = rs[n - 1].color
                          /\ rs[n].color # "none"
      lastTwoColor == IF lastTwoSameColor THEN rs[n].color ELSE "none"
  IN IF diff > 1 \/ lastTwoColor = "w" THEN 0 - 2
     ELSE IF diff < 0 - 1 \/ lastTwoColor = "b" THEN 2
     ELSE IF diff = 1 THEN 0 - 1
     ELSE IF diff = 0 - 1 THEN 1
     ELSE IF diff = 0
          THEN (IF lastColor = "w" THEN 0 - 1
                ELSE IF lastColor = "b" THEN 1 ELSE 0)
     ELSE 0

\* new Player(data)
Player(p, rat, roster, ms) ==
  LET rs == PlayerRounds(p, ms)
      wc == CountColor(rs, "w")
      bc == CountColor(rs, "b")
  IN [id |-> p,
      rating |-> rat,
      score |-> PlayerScore(p, ms),
      buchholz |-> PlayerBuchholz(p, roster, ms),
      whiteCount |-> wc,
      blackCount |-> bc,
      lastColor |-> LastColor(rs),
      hadBye |-> \E i \in 1..Len(rs) : rs[i].color = "none",
      opponents |-> {rs[i].opponent : i \in 1..Len(rs)} \ {0},
      colorPreference |-> updateColorPreference(wc, bc, LastColor(rs), rs)]

\* canPairWith without the look at the opponents already met
canPairWithAnyone(this, other) == TRUE

canPairWith(this, other) == other.id \notin this.opponents

getColorPenalty(this, color) ==
  LET cp == this.colorPreference
  IN IF color = "w"
     THEN (IF cp = 0 - 2 THEN 1000 ELSE IF cp = 0 - 1 THEN 100
           ELSE IF cp = 0 THEN 1 ELSE 0)
     ELSE (IF cp = 2 THEN 1000 ELSE IF cp = 1 THEN 100
           ELSE IF cp = 0 THEN 1 ELSE 0)

getColorArrangement(this, other) ==
  LET penalty1 == getColorPenalty(this, "w") + getColorPenalty(other, "b")
      penalty2 == getColorPenalty(this, "b") + getColorPenalty(other, "w")
  IN IF penalty1 < penalty2
     THEN [white |-> this, black |-> other, penalty |-> penalty1]
     ELSE IF penalty2 < penalty1
     THEN [white |-> other, black |-> this, penalty |-> penalty2]
     ELSE IF this.rating >= other.rating
     THEN [white |-> this, black |-> other, penalty |-> penalty1]
     ELSE [white |-> other, black |-> this, penalty |-> penalty2]

\* the null of tryPair
Null == [penalty |-> 0 - 1]

IsNull(arrangement) == arrangement.penalty < 0

tryPair(p1, p2) ==
  IF ~canPairWith(p1, p2) THEN Null ELSE getColorArrangement(p1, p2)

\* ----- sorting as Array.prototype.sort does it (stable) -----

RECURSIVE InsertByRating(_, _)
InsertByRating(x, s) ==
  IF s = <<>> THEN <<x>>
  ELSE IF Head(s).rating < x.rating THEN <<x>> \o s
  ELSE <<Head(s)>> \o InsertByRating(x, Tail(s))

\* the players left in the order they were loaded in
KeepOrder(s) == s

RECURSIVE SortByRatingDesc(_)
\* sort((a, b) => b.rating - a.rating)
SortByRatingDesc(s) ==
  IF s = <<>> THEN <<>>
  ELSE InsertByRating(s[Len(s)], SortByRatingDesc(SubSeq(s, 1, Len(s) - 1)))

RECURSIVE InsertByIdDesc(_, _)
InsertByIdDesc(x, s) ==
  IF s = <<>> THEN <<x>>
  ELSE IF Head(s).id < x.id THEN <<x>> \o s
  ELSE <<Head(s)>> \o InsertByIdDesc(x, Tail(s))

RECURSIVE SortByIdDesc(_)
\* sort((a, b) => b.id - a.id)
SortByIdDesc(s) ==
  IF s = <<>> THEN <<>>
  ELSE InsertByIdDesc(s[Len(s)], SortByIdDesc(SubSeq(s, 1, Len(s) - 1)))

\* ----- groupByScore -----

\* groups.get(score): the players of that score, by rating descending
ScoreGroup(players, score) ==
  SortByRatingDesc(SelectSeq(players, LAMBDA pl : pl.score = score))

RECURSIVE SortDesc(_)
\* the keys of the groups, sort((a, b) => b - a)
SortDesc(S) ==
  IF S = {} THEN <<>>
  ELSE LET m == CHOOSE x \in S : \A y \in S : y <= x
       IN <<m>> \o SortDesc(S \ {m})

\* ----- pairGroup -----

MkPair(arrangement) ==
  [white |-> arrangement.white.id, black |-> arrangement.black.id, boardNo |-> 0]

\* nextGroupPlayers.some(np => player.canPairWith(np))
canPairWithNext(player, nextGroupPlayers) ==
  \E k \in 1..Len(nextGroupPlayers) : canPairWith(player, nextGroupPlayers[k])

RECURSIVE FloaterLoop(_, _, _, _, _)
\* the loop that chooses the down-floater; i is the 0-based index of the
\* code, bestScore < 0 stands for Infinity.  The score of the code,
\* |cp + sum/L| * 100 + (length - i), is kept multiplied by L, the size of
\* the next group, so that it stays an integer.
FloaterLoop(allPlayers, nextGroupPlayers, i, bestFloaterIdx, bestScore) ==
  IF i < Len(allPlayers) \div 2 THEN bestFloaterIdx
  ELSE
    LET player == allPlayers[i + 1]
        L == Len(nextGroupPlayers)
        sumNextPref == SumSeq([k \in 1..L |-> nextGroupPlayers[k].colorPreference])
        score == Abs(player.colorPreference * L + sumNextPref) * 100
                 + (Len(allPlayers) - i) * L
    IN IF ~canPairWithNext(player, nextGroupPlayers)
       THEN FloaterLoop(allPlayers, nextGroupPlayers, i - 1, bestFloaterIdx, bestScore)
       ELSE IF bestScore < 0 \/ score < bestScore
       THEN FloaterLoop(allPlayers, nextGroupPlayers, i - 1, i, score)
       ELSE FloaterLoop(allPlayers, nextGroupPlayers, i - 1, bestFloaterIdx, bestScore)

RECURSIVE BestInS2(_, _, _, _, _)
\* the inner loop over S2: the index in S2 of bestBottom (0 when none),
\* j the next index to look at, best the index found so far
BestInS2(top, S2, used, j, best) ==
  IF j > Len(S2) THEN best
  ELSE IF S2[j].id \in used THEN BestInS2(top, S2, used, j + 1, best)
  ELSE
    LET arrangement == tryPair(top, S2[j])
    IN IF ~IsNull(arrangement)
          /\ (best = 0 \/ arrangement.penalty < tryPair(top, S2[best]).penalty)
       THEN BestInS2(top, S2, used, j + 1, j)
       ELSE BestInS2(top, S2, used, j + 1, best)

RECURSIVE FirstInS1(_, _, _, _)
\* the transposition loop over S1: the index of the first other player of
\* S1 that top can be paired with (0 when none)
FirstInS1(top, S1, used, j) ==
  IF j > Len(S1) THEN 0
  ELSE IF S1[j].id = top.id \/ S1[j].id \in used THEN FirstInS1(top, S1, used, j + 1)
  ELSE IF ~IsNull(tryPair(top, S1[j])) THEN j
  ELSE FirstInS1(top, S1, used, j + 1)

RECURSIVE PairS1(_, _, _, _)
\* the loop over S1; acc = [pairs, used, unpaired, paired]
PairS1(S1, S2, k, acc) ==
  IF k > Len(S1) THEN acc
  ELSE
    LET top == S1[k]
        b == BestInS2(top, S2, acc.used, 1, 0)
        o == FirstInS1(top, S1, acc.used, 1)
        pairWith(other) ==
          [acc EXCEPT !.pairs = Append(@, MkPair(tryPair(top, other))),
                      !.used = @ \cup {top.id, other.id},
                      !.paired = @ \cup {top.id, other.id}]
    IN IF top.id \in acc.used THEN PairS1(S1, S2, k + 1, acc)
       ELSE IF b # 0 THEN PairS1(S1, S2, k + 1, pairWith(S2[b]))
       ELSE IF o # 0 THEN PairS1(S1, S2, k + 1, pairWith(S1[o]))
       ELSE PairS1(S1, S2, k + 1, [acc EXCEPT !.unpaired = Append(@, top)])

\* the end of pairGroup: the players of S2 left unused join the unpaired;
\* r is what the loop over S1 returned
GroupResult(S2, r) ==
  [pairs |-> r.pairs,
   unpaired |-> r.unpaired \o SelectSeq(S2, LAMBDA pl : pl.id \notin r.used),
   paired |-> r.paired]

\* the halves S1 and S2 of allPlayers and the loop over S1; unpaired0 holds
\* the down-floater, if one was taken out
PairHalves(allPlayers, unpaired0, paired) ==
  LET half == (Len(allPlayers) + 1) \div 2
      S1 == SubSeq(allPlayers, 1, half)
      S2 == SubSeq(allPlayers, half + 1, Len(allPlayers))
  IN GroupResult(S2, PairS1(S1, S2, 1,
                            [pairs |-> <<>>, used |-> {}, unpaired |-> unpaired0,
                             paired |-> paired]))

\* allPlayers.splice(bestFloaterIdx, 1); unpaired.push(floater)
FloatDown(allPlayers, bestFloaterIdx, paired) ==
  PairHalves(RemoveAt(allPlayers, bestFloaterIdx + 1),
             <<allPlayers[bestFloaterIdx + 1]>>, paired)

\* pairGroup from the filtered allPlayers on
PairAll(allPlayers, nextGroupPlayers, paired) ==
  IF Len(allPlayers) % 2 = 1 /\ Len(nextGroupPlayers) > 0
  THEN FloatDown(allPlayers,
                 FloaterLoop(allPlayers, nextGroupPlayers, Len(allPlayers) - 1,
                             Len(allPlayers) - 1, 0 - 1),
                 paired)
  ELSE PairHalves(allPlayers, <<>>, paired)

\* pairGroup(group, floaters, nextGroupPlayers); paired is the set of the
\* ids whose paired flag is set.  Returns [pairs, unpaired, paired].
pairGroup(group, floaters, nextGroupPlayers, paired) ==
  PairAll(SelectSeq(floaters \o group, LAMBDA pl : pl.id \notin paired),
          nextGroupPlayers, paired)

\* ----- generateRound1Pairings -----

\* a first round in which the coin also picks the opponent of the bottom half
generateRound1PairingsByCoin(players, whiteFirst) ==
  LET odd == Len(players) % 2 = 1
      byId == SortByIdDesc(players)
      sorted == SortByRatingDesc(IF odd THEN Tail(byId) ELSE players)
      half == Len(sorted) \div 2
      pairs == [i \in 1..half |->
                  [white |-> sorted[i].id,
                   black |-> IF whiteFirst[i] THEN sorted[half + i].id
                             ELSE sorted[Len(sorted) + 1 - i].id,
                   boardNo |-> i]]
  IN [pairs |-> IF odd
                THEN Append(pairs, [white |-> Head(byId).id, black |-> 0,
                                    boardNo |-> Len(pairs) + 1])
                ELSE pairs,
      unpaired |-> <<>>]

\* whiteFirst[i] is the outcome of Math.random() < 0.5 on board i
generateRound1Pairings(players, whiteFirst) ==
  LET odd == Len(players) % 2 = 1
      byId == SortByIdDesc(players)
      activePlayers == IF odd THEN Tail(byId) ELSE players
      sorted == SortByRatingDesc(activePlayers)
      half == Len(sorted) \div 2
      top == SubSeq(sorted, 1, half)
      bottom == SubSeq(sorted, half + 1, Len(sorted))
      pairs == [i \in 1..Len(bottom) |->
                  [white |-> IF whiteFirst[i] THEN top[i].id ELSE bottom[i].id,
                   black |-> IF whiteFirst[i] THEN bottom[i].id ELSE top[i].id,
                   boardNo |-> i]]
  IN [pairs |-> IF odd
                THEN Append(pairs, [white |-> Head(byId).id, black |-> 0,
                                    boardNo |-> Len(pairs) + 1])
                ELSE pairs,
      unpaired |-> <<>>]

\* ----- generateSubsequentRoundPairings -----

\* a comparator of the bye candidates that leaves out the byes already had
ByeCompareScoreOnly(a, b) ==
  IF a.score # b.score THEN a.score - b.score
  ELSE a.buchholz - b.buchholz

\* the comparator of the bye candidates
ByeCompare(a, b) ==
  IF a.hadBye # b.hadBye THEN (IF a.hadBye THEN 1 ELSE 0 - 1)
  ELSE IF a.score # b.score THEN a.score - b.score
  ELSE a.buchholz - b.buchholz

RECURSIVE InsertByeCandidate(_, _)
InsertByeCandidate(x, s) ==
  IF s = <<>> THEN <<x>>
  ELSE IF ByeCompare(x, Head(s)) < 0 THEN <<x>> \o s
  ELSE <<Head(s)>> \o InsertByeCandidate(x, Tail(s))

RECURSIVE SortByeCandidates(_)
SortByeCandidates(s) ==
  IF s = <<>> THEN <<>>
  ELSE InsertByeCandidate(s[Len(s)], SortByeCandidates(SubSeq(s, 1, Len(s) - 1)))

\* allPairs.push(...result.pairs); floaters = result.unpaired
AddGroup(allPairs, result) ==
  [pairs |-> allPairs \o result.pairs,
   unpaired |-> result.unpaired,
   paired |-> result.paired]

RECURSIVE GroupLoop(_, _, _, _)
\* the loop over the score groups, from the highest score down;
\* acc = [pairs, unpaired, paired], unpaired being the floaters
GroupLoop(activePlayers, sortedScores, i, acc) ==
  IF i > Len(sortedScores) THEN acc
  ELSE GroupLoop(activePlayers, sortedScores, i + 1,
         AddGroup(acc.pairs,
                  pairGroup(ScoreGroup(activePlayers, sortedScores[i]),
                            acc.unpaired,
                            IF i < Len(sortedScores)
                            THEN ScoreGroup(activePlayers, sortedScores[i + 1])
                            ELSE <<>>,
                            acc.paired)))

RECURSIVE FirstPartner(_, _, _)
\* index of the first floater p1 can be paired with (0 when none)
FirstPartner(p1, floaters, i) ==
  IF i > Len(floaters) THEN 0
  ELSE IF ~IsNull(tryPair(p1, floaters[i])) THEN i
  ELSE FirstPartner(p1, floaters, i + 1)

RECURSIVE FloaterPass(_, _)
\* while (floaters.length >= 2): returns [pairs, floaters]
FloaterPass(floaters, allPairs) ==
  IF Len(floaters) < 2 THEN [pairs |-> allPairs, floaters |-> floaters]
  ELSE
    LET p1 == Head(floaters)
        rest == Tail(floaters)
        i == FirstPartner(p1, rest, 1)
    IN IF i # 0
       THEN FloaterPass(RemoveAt(rest, i), Append(allPairs, MkPair(tryPair(p1, rest[i]))))
       ELSE [pairs |-> allPairs, floaters |-> Append(rest, p1)]

\* allPairs[i].boardNo = i + 1
NumberBoards(allPairs) ==
  [i \in 1..Len(allPairs) |-> [allPairs[i] EXCEPT !.boardNo = i]]

\* the bye player of step 1 (players.length is odd)
Step1Bye(players) == Head(SortByeCandidates(players))

\* a fallback that hands the bye to the first floater whenever any is left
FallbackByeAnyFloater(floaters, byePlayer) ==
  IF Len(floaters) >= 1 THEN <<floaters[1]>> ELSE byePlayer

\* if (floaters.length === 1) byePlayer = floaters[0]; byePlayer is a
\* sequence of at most one player
FallbackBye(floaters, byePlayer) ==
  IF Len(floaters) = 1 THEN floaters ELSE byePlayer

\* the end of generateSubsequentRoundPairings: the fallback, the bye pair
\* and the board numbers; f is what the pass over the floaters returned
FinishRound(f, byePlayer0) ==
  LET byePlayer == FallbackBye(f.floaters, byePlayer0)
      allPairs == IF byePlayer # <<>>
                  THEN Append(f.pairs, [white |-> byePlayer[1].id, black |-> 0,
                                        boardNo |-> 0])
                  ELSE f.pairs
  IN [pairs |-> NumberBoards(allPairs),
      unpaired |-> IF Len(f.floaters) = 1 THEN <<>>
                   ELSE [i \in 1..Len(f.floaters) |-> f.floaters[i].id]]

\* the pass over the floaters the groups left; g is what the loop over the
\* groups returned
ResidualPass(g) == FloaterPass(g.unpaired, g.pairs)

\* steps 2 to 4 on the players without the bye player
PairActive(activePlayers, byePlayer0) ==
  FinishRound(
    ResidualPass(
      GroupLoop(activePlayers,
                SortDesc({activePlayers[i].score : i \in 1..Len(activePlayers)}),
                1,
                [pairs |-> <<>>, unpaired |-> <<>>,
                 paired |-> {byePlayer0[i].id : i \in 1..Len(byePlayer0)}])),
    byePlayer0)

\* activePlayers = players.filter(p => p.id !== byePlayer.id)
WithoutBye(players, byePlayer0) ==
  PairActive(IF byePlayer0 # <<>>
             THEN SelectSeq(players, LAMBDA pl : pl.id # byePlayer0[1].id)
             ELSE players,
             byePlayer0)

generateSubsequentRoundPairings(players) ==
  WithoutBye(players,
             IF Len(players) % 2 = 1 THEN <<Step1Bye(players)>> ELSE <<>>)

\* ----- generateSwissPairings -----

\* points of a win, a draw and a loss, in half points
PointsWin == 2
PointsDraw == 1
PointsLoss == 0

\* const byePoints = tournament.bye_points || 1
byePointsOf(cfg) == IF cfg = 0 THEN 2 ELSE cfg

\* the participants query: .neq('active', false), rows in id order
ActiveParticipants(reg, act) == SeqOfSet({p \in reg : act[p]})

\* the rows of the rounds numbered below currentRoundNum, in row order
AllMatches(rnds, ms, currentRoundNum) ==
  IF currentRoundNum > 1
  THEN SelectSeq(ms, LAMBDA m : rnds[m.round_id].number < currentRoundNum)
  ELSE <<>>

\* const players = Array.from(playerDataMap.values()).map(data => new Player(data))
Players(participants, rat, allMatches) ==
  [i \in 1..Len(participants) |->
     Player(participants[i], rat[participants[i]], Range(participants), allMatches)]

\* round 1 or a later round
PairPlayers(currentRoundNum, players, whiteFirst) ==
  IF currentRoundNum = 1
  THEN generateRound1Pairings(players, whiteFirst)
  ELSE generateSubsequentRoundPairings(players)

\* the pairings of the engine for round roundId: [pairs, unpaired]
Pairings(rnds, ms, reg, act, rat, roundId, whiteFirst) ==
  PairPlayers(rnds[roundId].number,
              Players(ActiveParticipants(reg, act), rat,
                      AllMatches(rnds, ms, rnds[roundId].number)),
              whiteFirst)

\* insertPayload
InsertPayload(pairs, roundId, byePoints) ==
  [i \in 1..Len(pairs) |->
     LET isBye == pairs[i].black = 0
     IN [round_id |-> roundId,
         white |-> pairs[i].white,
         black |-> pairs[i].black,
         board_no |-> pairs[i].boardNo,
         result |-> IF isBye THEN "bye" ELSE "not_played",
         score_white |-> IF isBye THEN byePoints ELSE 0,
         score_black |-> 0]]

\* listMatches(roundId)
listMatches(ms, roundId) == SelectSeq(ms, LAMBDA m : m.round_id = roundId)

Idle == [op |-> "none", round |-> 0, status |-> 0, outcome |-> "none",
         residual |-> {}, invoked |-> FALSE, repeat |-> FALSE, found |-> 0,
         fault |-> "none"]

NoCall == [round |-> 0, roundNo |-> 0, roster |-> {}, pairs |-> <<>>,
           unpaired |-> <<>>, payload |-> <<>>]

\* a route that never looks for the pairings it already has
AlreadyPairedNever(existing) == FALSE

\* if (existing && existing.length > 0): the round has its pairings
AlreadyPaired(existing) == Len(existing) > 0

\* the response of the pairings route
Resp(roundId, status, outcome, invoked, found) ==
  [op |-> "pairings", round |-> roundId, status |-> status,
   outcome |-> outcome, residual |-> {}, invoked |-> invoked,
   repeat |-> roundId \in DOMAIN engineCalls, found |-> found,
   fault |-> "none"]

\* engineCalls once the engine was called for roundId with roster
Called(roundId, roster) ==
  [r \in DOMAIN engineCalls \cup {roundId} |->
     IF r = roundId THEN roster ELSE engineCalls[r]]

\* the end of generateSwissPairings and of the route: the insert of the
\* payload, the round marked paired, 502 when no match came back
StorePairings(rnds, roundId, roster, e, payload) ==
  /\ matches' = matches \o payload
  /\ rounds' = [rnds EXCEPT ![roundId].status = "paired"]
  /\ engineCalls' = Called(roundId, roster)
  /\ lastCall' = [round |-> roundId, roundNo |-> rnds[roundId].number,
                  roster |-> roster, pairs |-> e.pairs,
                  unpaired |-> e.unpaired, payload |-> payload]
  /\ response' = IF payload = <<>>
                 THEN Resp(roundId, 502, "no_matches", TRUE, 0)
                 ELSE Resp(roundId, 201, "created", TRUE, 0)

\* insertPayload of the pairs e.pairs
Generated(rnds, roundId, roster, e) ==
  StorePairings(rnds, roundId, roster, e,
                InsertPayload(e.pairs, roundId, byePointsOf(byePointsCfg)))

\* the request that changes nothing in the database
Refused(rnds, roundId, status, outcome, found) ==
  /\ response' = Resp(roundId, status, outcome, FALSE, found)
  /\ rounds' = rnds
  /\ lastCall' = NoCall
  /\ UNCHANGED <<matches, engineCalls>>

\* POST /api/tournaments/[id]/tours/[tourId]/pairings on the rounds rnds
\* (generatePairingsWithBBP and generateSwissPairings included)
PostPairings(rnds, roundId, whiteFirst) ==
  IF AlreadyPaired(listMatches(matches, roundId))
  THEN Refused(rnds, roundId, 200, "existing", Len(listMatches(matches, roundId)))
  ELSE IF Cardinality(registered) < 2
  THEN Refused(rnds, roundId, 400, "need_participants", 0)
  ELSE IF ActiveParticipants(registered, active) = <<>>
  THEN \* generateSwissPairings throws, generatePairingsWithBBP returns null
       /\ response' = Resp(roundId, 502, "no_matches", TRUE, 0)
       /\ rounds' = rnds
       /\ lastCall' = NoCall
       /\ engineCalls' = Called(roundId, {})
       /\ UNCHANGED matches
  ELSE Generated(rnds, roundId, {p \in registered : active[p]},
                 Pairings(rnds, matches, registered, active, rating, roundId,
                          whiteFirst))

\* ----- buildStandings and Buchholz (tiebreakers.ts) -----

\* a participants query that leaves the withdrawn out of the standings
StandingsActiveOnly(reg, act) == {p \in reg : act[p]}

\* the participants query of buildStandings: every row of the tournament,
\* no condition on active
StandingsParticipants(reg, act) == reg

\* getAllTournamentMatches: the rows with the number of their round
TournamentMatches(rnds, ms) ==
  [i \in 1..Len(ms) |->
     [white |-> ms[i].white, black |-> ms[i].black,
      score_white |-> ms[i].score_white, score_black |-> ms[i].score_black,
      result |-> ms[i].result, round_number |-> rnds[ms[i].round_id].number]]

RECURSIVE MaxRoundNumber(_)
\* matches.reduce((max, m) => Math.max(max, m.round_number), 0)
MaxRoundNumber(tm) ==
  IF tm = <<>> THEN 0
  ELSE LET rest == MaxRoundNumber(Tail(tm))
       IN IF Head(tm).round_number > rest THEN Head(tm).round_number ELSE rest

\* results.push(...) of the white side and of the black side of a game
WhiteResult(result) ==
  IF result = "white" THEN "win"
  ELSE IF result = "black" THEN "loss"
  ELSE IF result = "draw" THEN "draw"
  ELSE IF result = "forfeit_black" THEN "forfeit_win"
  ELSE IF result = "forfeit_white" THEN "forfeit_loss"
  ELSE "draw"

BlackResult(result) ==
  IF result = "black" THEN "win"
  ELSE IF result = "white" THEN "loss"
  ELSE IF result = "draw" THEN "draw"
  ELSE IF result = "forfeit_white" THEN "forfeit_win"
  ELSE IF result = "forfeit_black" THEN "forfeit_loss"
  ELSE "draw"

\* an adjusted score that is the plain score
UnadjustedPoints(res, points) == points

\* what one row adds to adjustedScore: a forfeit counts 0.5 for both sides,
\* a bye of a point or more counts 0.5
AdjustedPoints(res, points) ==
  IF res \in {"forfeit_win", "forfeit_loss"} THEN 1
  ELSE IF res = "bye" THEN (IF points >= 2 THEN 1 ELSE points)
  ELSE points

\* the first pass of buildStandings for participant p: its rows of tm in row
\* order, each with what the pass pushes for it
StandingRows(p, tm) ==
  LET mine == SelectSeq(tm, LAMBDA m : m.white = p \/ m.black = p)
  IN [i \in 1..Len(mine) |->
        LET m == mine[i]
            asWhite == m.white = p
            res == IF asWhite
                   THEN (IF m.black # 0 THEN WhiteResult(m.result) ELSE "bye")
                   ELSE BlackResult(m.result)
            points == IF asWhite THEN m.score_white ELSE m.score_black
        IN [opponent |-> IF asWhite THEN m.black ELSE m.white,
            result |-> res,
            matchScore |-> points,
            roundNumber |-> m.round_number,
            adjusted |-> AdjustedPoints(res, points)]]

\* the rows of a player left in the order they were read
RowsAsRead(s) == s

RECURSIVE InsertByRoundNumber(_, _)
InsertByRoundNumber(x, s) ==
  IF s = <<>> THEN <<x>>
  ELSE IF x.roundNumber < Head(s).roundNumber THEN <<x>> \o s
  ELSE <<Head(s)>> \o InsertByRoundNumber(x, Tail(s))

RECURSIVE SortByRoundNumber(_)
\* sortedIndices: sort((a, b) => a.rn - b.rn)
SortByRoundNumber(s) ==
  IF s = <<>> THEN <<>>
  ELSE InsertByRoundNumber(s[Len(s)], SortByRoundNumber(SubSeq(s, 1, Len(s) - 1)))

RECURSIVE VirtualOpponents(_, _, _)
\* the second pass: Svon = SPR + (1 - SfPR) + 0.5 * (n - R) for each bye, in
\* the order of the rounds; sorted are the rows by round number
VirtualOpponents(sorted, runningScore, totalRounds) ==
  IF sorted = <<>> THEN <<>>
  ELSE LET r == Head(sorted)
           Svon == runningScore + (2 - r.matchScore) + (totalRounds - r.roundNumber)
       IN (IF r.result = "bye" THEN <<Svon>> ELSE <<>>)
          \o VirtualOpponents(Tail(sorted), runningScore + r.matchScore, totalRounds)

\* buildStandings: the standing of every participant
buildStandings(reg, act, rnds, ms) ==
  LET tm == TournamentMatches(rnds, ms)
      totalRounds == MaxRoundNumber(tm)
  IN [p \in StandingsParticipants(reg, act) |->
        LET rows == StandingRows(p, tm)
            games == SelectSeq(rows, LAMBDA r : r.result # "bye")
        IN [participantId |-> p,
            score |-> SumSeq([i \in 1..Len(rows) |-> rows[i].matchScore]),
            adjustedScore |-> SumSeq([i \in 1..Len(rows) |-> rows[i].adjusted]),
            opponents |-> [i \in 1..Len(games) |-> games[i].opponent],
            results |-> [i \in 1..Len(rows) |-> rows[i].result],
            matchScores |-> [i \in 1..Len(rows) |-> rows[i].matchScore],
            roundNumbers |-> [i \in 1..Len(rows) |-> rows[i].roundNumber],
            virtualOpponentScores |->
              VirtualOpponents(SortByRoundNumber(rows), 0, totalRounds)]]

RECURSIVE OpponentScoresFrom(_, _, _, _, _)
\* the loop of collectOpponentScores from index i of player.results on
OpponentScoresFrom(player, standings, i, opponentIdx, virtualIdx) ==
  IF i > Len(player.results) THEN <<>>
  ELSE IF player.results[i] = "bye"
  THEN IF virtualIdx < Len(player.virtualOpponentScores)
       THEN <<player.virtualOpponentScores[virtualIdx + 1]>>
            \o OpponentScoresFrom(player, standings, i + 1, opponentIdx, virtualIdx + 1)
       ELSE OpponentScoresFrom(player, standings, i + 1, opponentIdx, virtualIdx)
  ELSE IF opponentIdx < Len(player.opponents)
  THEN (IF player.opponents[opponentIdx + 1] \in DOMAIN standings
        THEN <<standings[player.opponents[opponentIdx + 1]].adjustedScore>>
        ELSE <<>>)
       \o OpponentScoresFrom(player, standings, i + 1, opponentIdx + 1, virtualIdx)
  ELSE OpponentScoresFrom(player, standings, i + 1, opponentIdx, virtualIdx)

\* opponent scores that leave the virtual opponents of the byes out
collectRealOpponentScores(player, standings) ==
  [i \in 1..Len(player.opponents) |-> standings[player.opponents[i]].adjustedScore]

collectOpponentScores(player, standings) ==
  OpponentScoresFrom(player, standings, 1, 0, 0)

calculateBuchholz(player, standings) ==
  SumSeq(collectOpponentScores(player, standings))

\* ----- initial state and requests -----

\* users.rating of the participants: not in id order, with one tie
RatingProfile == [p \in Ids |-> IF p % 3 = 0 THEN 1600 ELSE 1400 + 100 * p]

ByePointsValues == {0, 1, 2}

Results == {"white", "black", "draw"}

Init ==
  /\ \E n \in 2..MaxParticipants : registered = 1..n
  /\ active = [p \in Ids |-> TRUE]
  /\ rating = RatingProfile
  /\ byePointsCfg \in ByePointsValues
  /\ plannedRounds = MaxRounds
  /\ rounds = <<>>
  /\ matches = <<>>
  /\ response = Idle
  /\ engineCalls = <<>>
  /\ lastCall = NoCall

\* the coin tosses a call for round number n may use: one per board of
\* round 1, none in a later round
Coins(n) ==
  IF n = 1
  THEN [1..(Cardinality({p \in registered : active[p]}) \div 2) -> BOOLEAN]
  ELSE {<<>>}

\* startTour of the participants page: create the next round, then request
\* its pairings.  The organiser starts a tour once the results of the
\* rounds before it are in.
StartTour ==
  /\ Cardinality(registered) >= 2
  /\ ~(plannedRounds > 0 /\ Len(rounds) >= plannedRounds)
  /\ \A i \in 1..Len(matches) : matches[i].result # "not_played"
  /\ \E whiteFirst \in Coins(Len(rounds) + 1) :
       PostPairings(Append(rounds, [number |-> Len(rounds) + 1, status |-> "pending"]),
                    Len(rounds) + 1, whiteFirst)
  /\ UNCHANGED <<registered, active, rating, byePointsCfg, plannedRounds>>

\* the pairings request made again for the latest round
RetryPairings ==
  /\ Len(rounds) >= 1
  /\ \E whiteFirst \in Coins(rounds[Len(rounds)].number) :
       PostPairings(rounds, Len(rounds), whiteFirst)
  /\ UNCHANGED <<registered, active, rating, byePointsCfg, plannedRounds>>

\* a result is entered for a game that has none yet
EnterResult(i, res) ==
  /\ matches[i].result = "not_played"
  /\ matches' = [matches EXCEPT
       ![i].result = res,
       ![i].score_white = IF res = "white" THEN PointsWin
                          ELSE IF res = "draw" THEN PointsDraw ELSE PointsLoss,
       ![i].score_black = IF res = "black" THEN PointsWin
                          ELSE IF res = "draw" THEN PointsDraw ELSE PointsLoss]
  /\ response' = Idle
  /\ lastCall' = NoCall
  /\ UNCHANGED <<registered, active, rating, byePointsCfg, plannedRounds, rounds,
                 engineCalls>>

\* POST .../participants/[participantId]/withdraw
Withdraw(p) ==
  /\ Cardinality({q \in registered : ~active[q]} \cup {p}) <= MaxInactive
  /\ active' = [active EXCEPT ![p] = FALSE]
  /\ response' = Idle
  /\ lastCall' = NoCall
  /\ UNCHANGED <<registered, rating, byePointsCfg, plannedRounds, rounds, matches,
                 engineCalls>>

\* POST .../participants/[participantId]/restore
Restore(p) ==
  /\ active' = [active EXCEPT ![p] = TRUE]
  /\ response' = Idle
  /\ lastCall' = NoCall
  /\ UNCHANGED <<registered, rating, byePointsCfg, plannedRounds, rounds, matches,
                 engineCalls>>

Next ==
  \/ StartTour
  \/ RetryPairings
  \/ \E i \in 1..Len(matches), res \in Results : EnterResult(i, res)
  \/ \E p \in registered : Withdraw(p)
  \/ \E p \in registered : Restore(p)

Spec == Init /\ [][Next]_vars

\* a longer tournament of LongParticipants players in which nobody withdraws,
\* every tour is started once and every game is decided
DecisiveResults == {"white", "black"}

InitLong ==
  /\ registered = 1..LongParticipants
  /\ active = [p \in Ids |-> TRUE]
  /\ rating = RatingProfile
  /\ byePointsCfg = 2
  /\ plannedRounds = LongRounds
  /\ rounds = <<>>
  /\ matches = <<>>
  /\ response = Idle
  /\ engineCalls = <<>>
  /\ lastCall = NoCall

NextLong ==
  \/ StartTour
  \/ \E i \in 1..Len(matches), res \in DecisiveResults : EnterResult(i, res)

SpecLong == InitLong /\ [][NextLong]_vars

\* ----- what the claims speak about -----

\* the engine ran in the last request and handed its pairs to the repository
EngineCalled == lastCall.round # 0

\* the participants of a pair (0 is the null of a bye)
PairMembers(pr) == {pr.white, pr.black} \ {0}

Appearances(p, pairs) ==
  Cardinality({i \in 1..Len(pairs) : p \in PairMembers(pairs[i])})

ByeBoards(pairs) == {i \in 1..Len(pairs) : pairs[i].black = 0}

GameBoards(pairs) == {i \in 1..Len(pairs) : pairs[i].black # 0}

OddRoster == Cardinality(lastCall.roster) % 2 = 1

\* the unordered pairs that met in a round numbered below n
PlayedBefore(n) ==
  {{matches[i].white, matches[i].black} :
     i \in {j \in 1..Len(matches) :
              matches[j].black # 0 /\ rounds[matches[j].round_id].number < n}}

HadByeBefore(p, n) ==
  \E i \in 1..Len(matches) :
    /\ matches[i].white = p
    /\ matches[i].black = 0
    /\ rounds[matches[i].round_id].number < n

RECURSIVE PerfectMatching(_, _)
\* the players of S can all be paired without a pair of played
PerfectMatching(S, played) ==
  \/ S = {}
  \/ LET a == CHOOSE x \in S : \A y \in S : x <= y
     IN \E b \in S \ {a} :
          {a, b} \notin played /\ PerfectMatching(S \ {a, b}, played)

\* a complete pairing of the roster without rematch exists (with one bye
\* when the roster is odd)
CanBePaired(roster, played) ==
  IF Cardinality(roster) % 2 = 0 THEN PerfectMatching(roster, played)
  ELSE \E b \in roster : PerfectMatching(roster \ {b}, played)

\* the players the last engine call built
CallPlayers ==
  Players(SeqOfSet(lastCall.roster), rating,
          AllMatches(rounds, matches, lastCall.roundNo))

\* white games minus black games of p over the stored rounds
ColorDiff(p) ==
  Cardinality({i \in 1..Len(matches) : matches[i].white = p /\ matches[i].black # 0})
  - Cardinality({i \in 1..Len(matches) : matches[i].black = p})

\* C1: roster conservation.  For a roster of at least 2 active participants
\* and any history, every active participant is in exactly one pair of the
\* emitted round and nobody else is in a pair.  Stated for the rosters that
\* have a complete pairing without rematch, among them the ones in which
\* some players have already met; the rosters that have none are C5's.
C1_RosterConservation ==
  (/\ EngineCalled
   /\ Cardinality(lastCall.roster) >= 2
   /\ CanBePaired(lastCall.roster, PlayedBefore(lastCall.roundNo)))
  => /\ \A p \in lastCall.roster : Appearances(p, lastCall.pairs) = 1
     /\ \A i \in 1..Len(lastCall.pairs) :
          PairMembers(lastCall.pairs[i]) \subseteq lastCall.roster

\* C2: no rematch.  Starting from an empty history, whatever results are
\* entered in between, no unordered pair of participants is paired twice.
C2_NoRematch ==
  \A i, j \in 1..Len(matches) :
    (i < j /\ matches[i].black # 0 /\ matches[j].black # 0)
    => {matches[i].white, matches[i].black} # {matches[j].white, matches[j].black}

\* a third round in which two games were paired
C2_Witness ==
  /\ EngineCalled
  /\ lastCall.roundNo >= 3
  /\ Cardinality(GameBoards(lastCall.pairs)) >= 2

\* C3: bye count.  A round has at most one bye pair, and has one only when
\* the number of active participants is odd; in a later round the bye of an
\* odd roster is the one chosen in step 1, the fallback neither adds a second
\* bye nor replaces it.
C3_ByeCount ==
  /\ \A r \in 1..Len(rounds) :
       Cardinality(ByeBoards(listMatches(matches, r))) <= 1
  /\ EngineCalled =>
       /\ Cardinality(ByeBoards(lastCall.pairs)) <= 1
       /\ ByeBoards(lastCall.pairs) # {} => OddRoster
       /\ (lastCall.roundNo >= 2 /\ OddRoster) =>
            \A i \in ByeBoards(lastCall.pairs) :
              lastCall.pairs[i].white = Step1Bye(CallPlayers).id

\* an odd roster of a later round whose residual pass left floaters over:
\* the bye of step 1 is there and no floater took it
C3_Witness ==
  /\ EngineCalled
  /\ lastCall.roundNo >= 2
  /\ OddRoster
  /\ ByeBoards(lastCall.pairs) # {}
  /\ Len(lastCall.unpaired) >= 2

\* C4: color drift.  After any sequence of rounds paired by the engine every
\* player has |white_count - black_count| <= 2.
C4_ColorDriftBound == \A p \in registered : Abs(ColorDiff(p)) <= 2

\* C5: infeasibility is signalled.  When the active participants have no
\* complete pairing without rematch, the run ends in a PairingInfeasible
\* error outcome that carries the unpaired players, and no pairing is handed
\* to the repository.
C5_InfeasibleIsSignalled ==
  (EngineCalled /\ ~CanBePaired(lastCall.roster, PlayedBefore(lastCall.roundNo)))
  => /\ response.outcome = "PairingInfeasible"
     /\ response.residual # {}
     /\ lastCall.payload = <<>>

\* C6, as stated: of the sequential pairing requests for one round only the
\* first that finds no match invokes the engine; every request after it
\* returns the stored matches with status 200 and invokes nothing.
C6_OnlyFirstRequestInvokes ==
  (response.op = "pairings" /\ response.repeat)
  => (response.status = 200 /\ ~response.invoked)

\* the pairs of the rows of round r, without their results
StoredPairs(ms, r) ==
  LET rows == listMatches(ms, r)
  IN [i \in 1..Len(rows) |->
        [white |-> rows[i].white, black |-> rows[i].black,
         board_no |-> rows[i].board_no]]

\* C6, amended: a request invokes the engine only when it finds no match
\* stored for the round; once matches are stored for the round every later
\* request returns them with status 200 and inserts nothing, so the pairs of
\* the round never change after the generation that stored them and no
\* participant appears twice in the round.
C6_StoredPairingsAreFinal ==
  /\ [](/\ (response.op = "pairings" /\ response.found > 0)
             => (response.status = 200 /\ ~response.invoked)
        /\ response.invoked => response.found = 0
        /\ \A r \in 1..Len(rounds) : \A p \in registered :
             Appearances(p, listMatches(matches, r)) <= 1)
  /\ [][\A r \in 1..Len(rounds) :
          listMatches(matches, r) # <<>>
          => StoredPairs(matches', r) = StoredPairs(matches, r)]_vars

\* a request for a round the engine was called for before came back with the
\* stored matches
C6_Witness ==
  /\ response.op = "pairings"
  /\ response.repeat
  /\ response.status = 200
  /\ response.found > 0

\* a is not after b in the order (already had a bye, score, Buchholz)
ByeKeyLeq(a, b) ==
  \/ ~a.hadBye /\ b.hadBye
  \/ /\ a.hadBye = b.hadBye
     /\ \/ a.score < b.score
        \/ a.score = b.score /\ a.buchholz <= b.buchholz

\* C7: bye selection.  In a later round with an odd number of active
\* participants the bye goes to a minimum of them under the order (already
\* had a bye, score, Buchholz); in any round a participant who already had a
\* bye gets another one only when every active participant has had one.
C7_ByeSelection ==
  EngineCalled =>
    /\ (lastCall.roundNo >= 2 /\ OddRoster) =>
         \E i \in ByeBoards(lastCall.pairs) :
           \E b \in Range(CallPlayers) :
             /\ b.id = lastCall.pairs[i].white
             /\ \A q \in Range(CallPlayers) : ByeKeyLeq(b, q)
    /\ \A i \in ByeBoards(lastCall.pairs) :
         HadByeBefore(lastCall.pairs[i].white, lastCall.roundNo)
         => \A q \in lastCall.roster : HadByeBefore(q, lastCall.roundNo)

\* the bye goes to a participant without a bye although one who had a bye
\* has fewer points
C7_Witness ==
  /\ EngineCalled
  /\ lastCall.roundNo >= 2
  /\ OddRoster
  /\ \E i \in ByeBoards(lastCall.pairs) :
       \E b, q \in Range(CallPlayers) :
         /\ b.id = lastCall.pairs[i].white
         /\ ~b.hadBye
         /\ q.hadBye
         /\ q.score < b.score

\* C8: bye points.  The bye pair is stored with result 'bye' and with the
\* configured bye points of the tournament for white, 0 and 0.5 included;
\* every other pair is stored 'not_played' with 0 for both sides.
C8_ByePointsAsConfigured ==
  EngineCalled =>
    \A i \in 1..Len(lastCall.payload) :
      LET row == lastCall.payload[i]
      IN IF row.black = 0
         THEN row.result = "bye" /\ row.score_white = byePointsCfg
              /\ row.score_black = 0
         ELSE row.result = "not_played" /\ row.score_white = 0
              /\ row.score_black = 0

\* C9: round 1.  With an odd roster the participant of the largest id gets
\* the bye; the others are sorted by rating descending and cut into S1 and
\* S2, board i is S1[i] against S2[i], the boards are numbered 1..k in that
\* order and the bye pair is the last board.
C9_RoundOne ==
  (EngineCalled /\ lastCall.roundNo = 1) =>
    LET byeId == CHOOSE x \in lastCall.roster : \A y \in lastCall.roster : y <= x
        rest == IF OddRoster THEN lastCall.roster \ {byeId} ELSE lastCall.roster
        k == Cardinality(rest) \div 2
        pairs == lastCall.pairs
    IN /\ Len(pairs) = k + (IF OddRoster THEN 1 ELSE 0)
       /\ \A i \in 1..Len(pairs) : pairs[i].boardNo = i
       /\ OddRoster => pairs[k + 1].white = byeId /\ pairs[k + 1].black = 0
       /\ \E sorted \in [1..(2 * k) -> rest] :
            /\ \A i, j \in 1..(2 * k) : i # j => sorted[i] # sorted[j]
            /\ \A i \in 1..(2 * k - 1) : rating[sorted[i]] >= rating[sorted[i + 1]]
            /\ \A i \in 1..k :
                 {pairs[i].white, pairs[i].black} = {sorted[i], sorted[k + i]}

\* a first round of an odd roster: a game and the bye on the last board
C9_Witness ==
  /\ EngineCalled
  /\ lastCall.roundNo = 1
  /\ OddRoster
  /\ GameBoards(lastCall.pairs) # {}
  /\ ByeBoards(lastCall.pairs) # {}

\* the points the rows of matches hold for p
StoredPoints(p) ==
  SumSeq([i \in 1..Len(matches) |->
            (IF matches[i].white = p THEN matches[i].score_white ELSE 0)
            + (IF matches[i].black = p THEN matches[i].score_black ELSE 0)])

\* the rows of p against a real opponent
GamesOf(p) ==
  {i \in 1..Len(matches) :
     matches[i].black # 0 /\ p \in {matches[i].white, matches[i].black}}

OpponentIn(p, i) ==
  IF matches[i].white = p THEN matches[i].black ELSE matches[i].white

Standings == buildStandings(registered, active, rounds, matches)

ActiveRoster == {p \in registered : active[p]}

\* C11: insufficient participants.  A pairing request that finds no stored
\* match while fewer than 2 participants are active is refused with an error
\* status, inserts no match (no lone bye pair) and leaves the status of every
\* round as it was.
C11_InsufficientParticipants ==
  [][(response'.op = "pairings" /\ response'.found = 0
        /\ Cardinality(ActiveRoster) < 2)
     => /\ response'.status >= 400
        /\ matches' = matches
        /\ \A r \in DOMAIN rounds' :
             rounds'[r].status = IF r \in DOMAIN rounds THEN rounds[r].status
                                 ELSE "pending"]_vars

\* ----- the pairing call on a repository that fails -----

FaultyParticipants == 3

\* the repository operations of generateSwissPairings that may fail
Faults == {"round", "tournament", "participants", "prev_rounds", "prev_matches",
           "insert", "mark"}

\* the loads whose failure leaves the engine without data
LoadFaults == {"round", "prev_rounds", "prev_matches"}

\* const currentRoundNum = roundRow?.number || 1
RoundNumberLoaded(rnds, roundId, fault) ==
  IF fault = "round" THEN 1 ELSE rnds[roundId].number

\* allMatches of a call: nothing when prevRounds or allMatches came back null
HistoryLoaded(rnds, ms, currentRoundNum, fault) ==
  IF fault \in {"prev_rounds", "prev_matches"} THEN <<>>
  ELSE AllMatches(rnds, ms, currentRoundNum)

\* the response of the route to a call in which fault happened
FaultyResp(roundId, status, outcome, fault) ==
  [Resp(roundId, status, outcome, TRUE, 0) EXCEPT !.fault = fault]

\* the end of generateSwissPairings when the insert or the update may fail:
\* insertedMatches || [], then the update whose outcome is not looked at
FaultyStore(rnds, roundId, roster, e, payload, fault) ==
  /\ matches' = IF fault = "insert" THEN matches ELSE matches \o payload
  /\ rounds' = IF fault = "mark" THEN rnds
               ELSE [rnds EXCEPT ![roundId].status = "paired"]
  /\ engineCalls' = Called(roundId, roster)
  /\ lastCall' = [round |-> roundId, roundNo |-> rnds[roundId].number,
                  roster |-> roster, pairs |-> e.pairs,
                  unpaired |-> e.unpaired, payload |-> payload]
  /\ response' = IF payload = <<>> \/ fault = "insert"
                 THEN FaultyResp(roundId, 502, "no_matches", fault)
                 ELSE FaultyResp(roundId, 201, "created", fault)

FaultyGenerated(rnds, roundId, roster, e, fault) ==
  FaultyStore(rnds, roundId, roster, e,
              InsertPayload(e.pairs, roundId, byePointsOf(byePointsCfg)), fault)

\* the route and generateSwissPairings when the repository operation fault of
\* the engine fails
FaultyPostPairings(rnds, roundId, whiteFirst, fault) ==
  IF fault \in {"tournament", "participants"}
  THEN \* throw new Error(...), generatePairingsWithBBP returns null
       /\ response' = FaultyResp(roundId, 502, "no_matches", fault)
       /\ rounds' = rnds
       /\ lastCall' = NoCall
       /\ engineCalls' = Called(roundId, {})
       /\ UNCHANGED matches
  ELSE FaultyGenerated(rnds, roundId, ActiveRoster,
         PairPlayers(RoundNumberLoaded(rnds, roundId, fault),
                     Players(ActiveParticipants(registered, active), rating,
                             HistoryLoaded(rnds, matches,
                                           RoundNumberLoaded(rnds, roundId, fault),
                                           fault)),
                     whiteFirst),
         fault)

\* the coin tosses of a call that takes the round for round number n
CoinsLoaded(n) == IF n = 1 THEN Coins(1) ELSE {<<>>}

\* startTour whose pairing request meets the failure fault
FaultyStartTour(fault) ==
  /\ Cardinality(registered) >= 2
  /\ ActiveRoster # {}
  /\ ~(plannedRounds > 0 /\ Len(rounds) >= plannedRounds)
  /\ \A i \in 1..Len(matches) : matches[i].result # "not_played"
  /\ fault \in {"prev_rounds", "prev_matches"} => Len(rounds) >= 1
  /\ \E whiteFirst \in CoinsLoaded(IF fault = "round" THEN 1 ELSE Len(rounds) + 1) :
       FaultyPostPairings(Append(rounds, [number |-> Len(rounds) + 1,
                                          status |-> "pending"]),
                          Len(rounds) + 1, whiteFirst, fault)
  /\ UNCHANGED <<registered, active, rating, byePointsCfg, plannedRounds>>

InitFaulty ==
  /\ \E n \in 2..FaultyParticipants : registered = 1..n
  /\ active = [p \in Ids |-> TRUE]
  /\ rating = RatingProfile
  /\ byePointsCfg = 2
  /\ plannedRounds = MaxRounds
  /\ rounds = <<>>
  /\ matches = <<>>
  /\ response = Idle
  /\ engineCalls = <<>>
  /\ lastCall = NoCall

NextFaulty ==
  \/ StartTour
  \/ \E fault \in Faults : FaultyStartTour(fault)
  \/ \E i \in 1..Len(matches), res \in DecisiveResults : EnterResult(i, res)

SpecFaulty == InitFaulty /\ [][NextFaulty]_vars

\* C12: repository errors are never swallowed.  A pairing call in which a
\* repository operation failed ends with an error status for the caller, and
\* when the failure was in loading the round or the history no pairing made
\* on the missing data is handed to the repository.
C12_RepositoryErrorsSurface ==
  response.fault # "none"
  => /\ response.status >= 400
     /\ response.fault \in LoadFaults => lastCall.payload = <<>>

\* C13: insert then mark.  In every reachable state a round whose status is
\* 'paired' has matches stored: the round is not marked when the insert of
\* its pairings failed or returned nothing.
C13_InsertThenMark ==
  \A r \in DOMAIN rounds :
    rounds[r].status = "paired" => listMatches(matches, r) # <<>>

\* the games of a pairing as unordered pairs, and its bye players
UnorderedPairs(pairs) == {PairMembers(pairs[i]) : i \in GameBoards(pairs)}

ByePlayers(pairs) == {pairs[i].white : i \in ByeBoards(pairs)}

\* two outputs of the engine for round number n that may differ only in the
\* colors of round 1
SameOutcome(n, a, b) ==
  /\ UnorderedPairs(a) = UnorderedPairs(b)
  /\ ByePlayers(a) = ByePlayers(b)
  /\ n >= 2 => a = b

\* the pairs of a second call of the engine for the round of the last call,
\* on the same roster and history, with the coins whiteFirst
SecondCall(whiteFirst) ==
  Pairings(rounds, matches, registered, active, rating, lastCall.round,
           whiteFirst).pairs

Reordered(rows, f) == [i \in 1..Len(rows) |-> rows[f[i]]]

\* the pairs of the engine for the round and roster of the last call when the
\* query of the previous matches returns the rows history
CallOnHistory(history) ==
  PairPlayers(lastCall.roundNo,
              Players(ActiveParticipants(registered, active), rating, history),
              <<>>).pairs

\* C15: history order.  The pairing emitted for a round after the first is
\* the one of the players' records taken in ascending round number: it is
\* the same for every order in which the repository returns the match rows
\* of the previous rounds.
C15_HistoryOrder ==
  (EngineCalled /\ lastCall.roundNo >= 2)
  => \A f \in Permutations(1..Len(AllMatches(rounds, matches, lastCall.roundNo))) :
       CallOnHistory(Reordered(AllMatches(rounds, matches, lastCall.roundNo), f))
         = lastCall.pairs

\* ----- tiebreakers and the sorted standings (tiebreakers.ts) -----
\* Scores are in half points; Sonneborn-Berger is in quarter points, so that
\* half of an opponent's score stays a whole number.

RECURSIVE MinOfSeq(_)
\* Math.min(...scores) of a sequence that is not empty
MinOfSeq(s) ==
  IF Len(s) = 1 THEN s[1]
  ELSE LET rest == MinOfSeq(Tail(s))
       IN IF Head(s) < rest THEN Head(s) ELSE rest

RECURSIVE InsertAscending(_, _)
InsertAscending(x, s) ==
  IF s = <<>> THEN <<x>>
  ELSE IF x < Head(s) THEN <<x>> \o s
  ELSE <<Head(s)>> \o InsertAscending(x, Tail(s))

RECURSIVE SortAscending(_)
\* [...scores].sort((a, b) => a - b)
SortAscending(s) ==
  IF s = <<>> THEN <<>>
  ELSE InsertAscending(s[Len(s)], SortAscending(SubSeq(s, 1, Len(s) - 1)))

\* if (scores.length <= 1) return sum; return sum - Math.min(...scores)
BuchholzCut1Of(scores) ==
  IF Len(scores) <= 1 THEN SumSeq(scores) ELSE SumSeq(scores) - MinOfSeq(scores)

calculateBuchholzCut1(player, standings) ==
  BuchholzCut1Of(collectOpponentScores(player, standings))

\* if (scores.length <= 2) return sum; sorted.slice(1, -1) summed
MedianBuchholzOf(scores) ==
  IF Len(scores) <= 2 THEN SumSeq(scores)
  ELSE SumSeq(SubSeq(SortAscending(scores), 2, Len(scores) - 1))

calculateMedianBuchholz(player, standings) ==
  MedianBuchholzOf(collectOpponentScores(player, standings))

\* the loop of calculateSonnebornBerger: results[i] is read at the index i
\* of opponents
calculateSonnebornBerger(player, standings) ==
  SumSeq([i \in 1..Len(player.opponents) |->
     IF player.opponents[i] \notin DOMAIN standings THEN 0
     ELSE IF player.results[i] \in {"win", "forfeit_win"}
     THEN 2 * standings[player.opponents[i]].adjustedScore
     ELSE IF player.results[i] = "draw"
     THEN standings[player.opponents[i]].adjustedScore
     ELSE 0])

calculateNumberOfWins(player) ==
  Cardinality({i \in 1..Len(player.results) :
                 player.results[i] \in {"win", "forfeit_win"}})

\* calculateHeadToHead: the games are found in opponents, their results are
\* read in results at the same index; 1, 0 or -1
calculateHeadToHead(player1, player2) ==
  LET games == {i \in 1..Len(player1.opponents) :
                  player1.opponents[i] = player2.participantId}
      score1 == SumSeq([i \in 1..Len(player1.opponents) |->
                  IF i \notin games THEN 0
                  ELSE IF player1.results[i] \in {"win", "forfeit_win"} THEN 2
                  ELSE IF player1.results[i] = "draw" THEN 1 ELSE 0])
      score2 == SumSeq([i \in 1..Len(player1.opponents) |->
                  IF i \notin games THEN 0
                  ELSE IF player1.results[i] \in {"loss", "forfeit_loss"} THEN 2
                  ELSE IF player1.results[i] = "draw" THEN 1 ELSE 0])
  IN IF games = {} THEN 0
     ELSE IF score1 > score2 THEN 1
     ELSE IF score1 < score2 THEN 0 - 1
     ELSE 0

\* the player of calculateAllTiebreakers: the standing with its five values
PlayerWithTiebreakers(player, standings) ==
  [participantId |-> player.participantId,
   score |-> player.score,
   adjustedScore |-> player.adjustedScore,
   opponents |-> player.opponents,
   results |-> player.results,
   matchScores |-> player.matchScores,
   roundNumbers |-> player.roundNumbers,
   virtualOpponentScores |-> player.virtualOpponentScores,
   tiebreakers |->
     [buchholz |-> calculateBuchholz(player, standings),
      buchholzCut1 |-> calculateBuchholzCut1(player, standings),
      medianBuchholz |-> calculateMedianBuchholz(player, standings),
      sonnebornBerger |-> calculateSonnebornBerger(player, standings),
      numberOfWins |-> calculateNumberOfWins(player)]]

\* calculateAllTiebreakers on the map of buildStandings
AllTiebreakers(standings) ==
  [p \in DOMAIN standings |-> PlayerWithTiebreakers(standings[p], standings)]

calculateAllTiebreakers(reg, act, rnds, ms) ==
  AllTiebreakers(buildStandings(reg, act, rnds, ms))

\* the names under which the switch of the comparator knows a key
HeadToHeadKeys == {"head_to_head", "head-to-head", "h2h", "direct_encounter"}
BuchholzKeys == {"buchholz"}
BuchholzCut1Keys == {"buchholz_cut1", "buchholz-cut1", "cut1"}
MedianBuchholzKeys == {"median_buchholz", "median-buchholz", "median"}
SonnebornBergerKeys == {"sonneborn_berger", "sonneborn-berger", "sb"}
NumberOfWinsKeys == {"number_of_wins", "wins"}

\* one case of the switch: what the key decides between the two players,
\* 0 when it decides nothing or is not known
CompareOnKey(player1, player2, tiebreaker) ==
  IF tiebreaker \in HeadToHeadKeys
  THEN 0 - calculateHeadToHead(player1, player2)
  ELSE IF tiebreaker \in BuchholzKeys
  THEN player2.tiebreakers.buchholz - player1.tiebreakers.buchholz
  ELSE IF tiebreaker \in BuchholzCut1Keys
  THEN player2.tiebreakers.buchholzCut1 - player1.tiebreakers.buchholzCut1
  ELSE IF tiebreaker \in MedianBuchholzKeys
  THEN player2.tiebreakers.medianBuchholz - player1.tiebreakers.medianBuchholz
  ELSE IF tiebreaker \in SonnebornBergerKeys
  THEN player2.tiebreakers.sonnebornBerger - player1.tiebreakers.sonnebornBerger
  ELSE IF tiebreaker \in NumberOfWinsKeys
  THEN player2.tiebreakers.numberOfWins - player1.tiebreakers.numberOfWins
  ELSE 0

\* a comparator that reads the key list from its end
CompareOnKeysReversed(player1, player2, tiebreakerList) ==
  IF tiebreakerList = <<>> THEN 0
  ELSE IF CompareOnKey(player1, player2, tiebreakerList[Len(tiebreakerList)]) # 0
  THEN CompareOnKey(player1, player2, tiebreakerList[Len(tiebreakerList)])
  ELSE CompareOnKey(player1, player2, Head(tiebreakerList))

RECURSIVE CompareOnKeys(_, _, _)
\* the for loop over tiebreakerList: the first key that decides
CompareOnKeys(player1, player2, tiebreakerList) ==
  IF tiebreakerList = <<>> THEN 0
  ELSE IF CompareOnKey(player1, player2, Head(tiebreakerList)) # 0
  THEN CompareOnKey(player1, player2, Head(tiebreakerList))
  ELSE CompareOnKeys(player1, player2, Tail(tiebreakerList))

\* comparePlayersWithTiebreakers: negative when player1 comes first
comparePlayersWithTiebreakers(player1, player2, tiebreakerList, standings) ==
  IF player1.score # player2.score THEN player2.score - player1.score
  ELSE CompareOnKeys(player1, player2, tiebreakerList)

\* tournament?.tiebreakers || 'buchholz,buchholz_cut1', split into its keys;
\* <<>> is the tournament without a tiebreakers string
TiebreakerList(tiebreakers) ==
  IF tiebreakers = <<>> THEN <<"buchholz", "buchholz_cut1">> ELSE tiebreakers

\* the comparator of the sort as a table over the participants
CompareTable(standings, tiebreakerList) ==
  [pq \in (DOMAIN standings) \X (DOMAIN standings) |->
     comparePlayersWithTiebreakers(standings[pq[1]], standings[pq[2]],
                                   tiebreakerList, standings)]

\* Array.prototype.sort of the runtime on an array of fewer than 32 elements:
\* the run that starts the array is counted (and reversed when it is strictly
\* descending), every later element is put in by binary insertion.
\* a is the array of participant ids, cmp the table of the comparator.
RECURSIVE RunEnd(_, _, _, _)
RunEnd(a, idx, isDescending, cmp) ==
  IF idx > Len(a) THEN Len(a)
  ELSE IF isDescending /\ cmp[<<a[idx], a[idx - 1]>>] >= 0 THEN idx - 1
  ELSE IF ~isDescending /\ cmp[<<a[idx], a[idx - 1]>>] < 0 THEN idx - 1
  ELSE RunEnd(a, idx + 1, isDescending, cmp)

ReverseSeq(s) == [i \in 1..Len(s) |-> s[Len(s) + 1 - i]]

\* the array after the run of length n was made ascending
MakeRun(a, n, isDescending) ==
  IF isDescending THEN ReverseSeq(SubSeq(a, 1, n)) \o SubSeq(a, n + 1, Len(a))
  ELSE a

RECURSIVE InsertionPoint(_, _, _, _, _)
\* the binary search for pivot in a[left + 1 .. right]
InsertionPoint(a, pivot, left, right, cmp) ==
  IF left >= right THEN left
  ELSE IF cmp[<<pivot, a[left + ((right - left) \div 2) + 1]>>] < 0
  THEN InsertionPoint(a, pivot, left, left + ((right - left) \div 2), cmp)
  ELSE InsertionPoint(a, pivot, left + ((right - left) \div 2) + 1, right, cmp)

\* a with the element at start + 1 moved to position at + 1
MoveTo(a, start, at) ==
  SubSeq(a, 1, at) \o <<a[start + 1]>> \o SubSeq(a, at + 1, start)
    \o SubSeq(a, start + 2, Len(a))

RECURSIVE BinaryInsertionSort(_, _, _)
\* the first start elements of a are in order
BinaryInsertionSort(a, start, cmp) ==
  IF start >= Len(a) THEN a
  ELSE BinaryInsertionSort(
         MoveTo(a, start, InsertionPoint(a, a[start + 1], 0, start, cmp)),
         start + 1, cmp)

SortFromRun(a, n, isDescending, cmp) ==
  BinaryInsertionSort(MakeRun(a, n, isDescending), n, cmp)

\* a sort that leaves the array as it is
SortNothing(a, cmp) == a

\* standingsArray.sort((a, b) => comparePlayersWithTiebreakers(a, b, ...))
SortStandings(a, cmp) ==
  IF Len(a) < 2 THEN a
  ELSE SortFromRun(a, RunEnd(a, 3, cmp[<<a[2], a[1]>>] < 0, cmp),
                   cmp[<<a[2], a[1]>>] < 0, cmp)

\* the sorted array of the players of standings
SortedPlayers(standings, tiebreakerList) ==
  LET order == SortStandings(SeqOfSet(DOMAIN standings),
                             CompareTable(standings, tiebreakerList))
  IN [i \in 1..Len(order) |-> standings[order[i]]]

\* getSortedStandings for the tournament whose tiebreakers string is tiebreakers
getSortedStandings(reg, act, rnds, ms, tiebreakers) ==
  SortedPlayers(calculateAllTiebreakers(reg, act, rnds, ms),
                TiebreakerList(tiebreakers))

\* a rank that players of one score share
getPlayerRankByScore(sorted, participantId) ==
  1 + Cardinality({i \in 1..Len(sorted) :
        \E j \in 1..Len(sorted) :
          /\ sorted[j].participantId = participantId
          /\ sorted[i].score > sorted[j].score})

\* getPlayerRank: findIndex + 1, length + 1 for a participant not found
getPlayerRank(sorted, participantId) ==
  IF \E i \in 1..Len(sorted) : sorted[i].participantId = participantId
  THEN CHOOSE i \in 1..Len(sorted) :
         /\ sorted[i].participantId = participantId
         /\ \A j \in 1..(i - 1) : sorted[j].participantId # participantId
  ELSE Len(sorted) + 1

\* the rows of the leaderboard route: rank is the position in the sorted array
LeaderboardRows(sorted) ==
  [idx \in 1..Len(sorted) |->
     [participant_id |-> sorted[idx].participantId,
      points |-> sorted[idx].score,
      rank |-> idx,
      tiebreakers |-> sorted[idx].tiebreakers]]

\* ----- the reads of the standings -----

BoardParticipants == 4

\* the tiebreakers strings of the tournaments read: none, lists over the keys
\* of the comparator, a key it does not know, and the other keys of the table
TiebreakConfigs ==
  {<<>>,
   <<"direct_encounter", "buchholz">>,
   <<"buchholz", "direct_encounter">>,
   <<"sonneborn_berger", "number_of_wins">>,
   <<"number_of_wins", "median_buchholz">>,
   <<"median_buchholz", "sonneborn_berger">>,
   <<"no_such_key", "buchholz_cut1">>,
   <<"buchholz_cut2">>,
   <<"progressive">>,
   <<"games_as_black">>,
   <<"wins_with_black">>}

\* what the reads of the standings return: the rows of the leaderboard route
\* and getPlayerRank of every participant, both from getSortedStandings
StandingsResp(tiebreakers, sorted) ==
  [op |-> "standings", round |-> 0, status |-> 200, outcome |-> "rows",
   residual |-> {}, invoked |-> FALSE, repeat |-> FALSE, found |-> 0,
   fault |-> "none", tiebreakers |-> tiebreakers,
   rows |-> LeaderboardRows(sorted),
   playerRank |-> [p \in registered |-> getPlayerRank(sorted, p)]]

\* GET /api/tournaments/[id]/leaderboard when no leaderboard is stored, and
\* getPlayerRank, for the tournament whose tiebreakers string is tiebreakers.
\* A read changes nothing in the tournament, so one read is taken between
\* two changes.
GetStandings(tiebreakers) ==
  /\ response.op # "standings"
  /\ response' = StandingsResp(tiebreakers,
                   getSortedStandings(registered, active, rounds, matches,
                                      tiebreakers))
  /\ UNCHANGED <<registered, active, rating, byePointsCfg, plannedRounds, rounds,
                 matches, engineCalls, lastCall>>

InitBoard ==
  /\ \E n \in 2..BoardParticipants : registered = 1..n
  /\ active = [p \in Ids |-> TRUE]
  /\ rating = RatingProfile
  /\ byePointsCfg = 2
  /\ plannedRounds = MaxRounds
  /\ rounds = <<>>
  /\ matches = <<>>
  /\ response = Idle
  /\ engineCalls = <<>>
  /\ lastCall = NoCall

NextBoard ==
  \/ StartTour
  \/ \E i \in 1..Len(matches), res \in Results : EnterResult(i, res)
  \/ \E p \in registered : Withdraw(p)
  \/ \E tiebreakers \in TiebreakConfigs : GetStandings(tiebreakers)

SpecBoard == InitBoard /\ [][NextBoard]_vars

\* the answer of the last request is a read of the standings
StandingsRead == response.op = "standings"

\* the positions of participant p in the rows of the read
RowsOf(p) == {i \in 1..Len(response.rows) : response.rows[i].participant_id = p}

\* C16: standings totality.  The sorted standings hold exactly one entry per
\* participant of the tournament, the withdrawn and those without a match
\* included; the rank of the leaderboard is the position in them and the
\* ranks of getPlayerRank are exactly 1..N, each given once.
C16_StandingsTotality ==
  StandingsRead =>
    /\ Len(response.rows) = Cardinality(registered)
    /\ \A p \in registered : Cardinality(RowsOf(p)) = 1
    /\ \A i \in 1..Len(response.rows) : response.rows[i].rank = i
    /\ \A p \in registered : response.playerRank[p] \in RowsOf(p)
    /\ {response.playerRank[p] : p \in registered} = 1..Cardinality(registered)

\* a read of four participants after a round was played, one of them
\* withdrawn before any match and two of the others level on points
C16_Witness ==
  /\ StandingsRead
  /\ Cardinality(registered) = 4
  /\ \E i \in 1..Len(matches) : matches[i].result \in {"white", "black", "draw"}
  /\ \E p \in registered :
       /\ ~active[p]
       /\ \A i \in 1..Len(matches) : p \notin PairMembers(matches[i])
  /\ \E i, j \in 1..Len(response.rows) :
       i # j /\ response.rows[i].points = response.rows[j].points

\* participant a has won a game against participant b
Beat(a, b) ==
  \E i \in 1..Len(matches) :
    \/ matches[i].white = a /\ matches[i].black = b /\ matches[i].result = "white"
    \/ matches[i].white = b /\ matches[i].black = a /\ matches[i].result = "black"

\* the points of participant p in the rows of the read
PointsIn(p) == response.rows[CHOOSE i \in RowsOf(p) : TRUE].points

\* C17: score monotonicity.  Whatever the tiebreakers string, a player with
\* more points than another stands strictly above it in the sorted standings.
C17_ScoreMonotonicity ==
  StandingsRead =>
    \A i, j \in 1..Len(response.rows) :
      response.rows[i].points > response.rows[j].points => i < j

\* a read with direct_encounter as first key in which three players level on
\* points have beaten each other in a circle and a fourth has fewer points
C17_Witness ==
  /\ StandingsRead
  /\ response.tiebreakers # <<>>
  /\ response.tiebreakers[1] = "direct_encounter"
  /\ \E a, b, c, d \in registered :
       /\ Beat(a, b) /\ Beat(b, c) /\ Beat(c, a)
       /\ PointsIn(a) = PointsIn(b) /\ PointsIn(b) = PointsIn(c)
       /\ PointsIn(d) < PointsIn(a)

\* the keys whose values calculateAllTiebreakers reports
ValueKeys == {"buchholz", "buchholz_cut1", "median_buchholz", "sonneborn_berger",
              "number_of_wins"}

\* the value a row of the read reports for key k
KeyValue(row, k) ==
  IF k = "buchholz" THEN row.tiebreakers.buchholz
  ELSE IF k = "buchholz_cut1" THEN row.tiebreakers.buchholzCut1
  ELSE IF k = "median_buchholz" THEN row.tiebreakers.medianBuchholz
  ELSE IF k = "sonneborn_berger" THEN row.tiebreakers.sonnebornBerger
  ELSE row.tiebreakers.numberOfWins

\* the key list of the read
KeysRead == TiebreakerList(response.tiebreakers)

\* the positions of the key list at which rows a and b differ in a value
Differing(a, b) ==
  {n \in 1..Len(KeysRead) :
     /\ KeysRead[n] \in ValueKeys
     /\ KeyValue(a, KeysRead[n]) # KeyValue(b, KeysRead[n])}

\* the first of the positions ns
FirstOf(ns) == CHOOSE n \in ns : \A m \in ns : n <= m

\* the key list of the read holds value keys and keys that are no key at all
LexicographicRead ==
  /\ StandingsRead
  /\ \A n \in 1..Len(KeysRead) : KeysRead[n] \in ValueKeys \cup {"no_such_key"}

\* C18: lexicographic comparator.  Under a key list over the five value
\* keys, two players level on points stand in the order of the first key of
\* the list on which their values differ, the larger value first (the values
\* are multiples of a quarter point, so every difference is above 0.001); a
\* key that is not known decides nothing, and players who differ on no key
\* keep the order of the roster.
C18_LexicographicComparator ==
  LexicographicRead =>
    \A i, j \in 1..Len(response.rows) :
      (i < j /\ response.rows[i].points = response.rows[j].points)
      => IF Differing(response.rows[i], response.rows[j]) = {}
         THEN response.rows[i].participant_id < response.rows[j].participant_id
         ELSE KeyValue(response.rows[i],
                       KeysRead[FirstOf(Differing(response.rows[i], response.rows[j]))])
              > KeyValue(response.rows[j],
                         KeysRead[FirstOf(Differing(response.rows[i], response.rows[j]))])

\* a read in which two players level on points are level on the first key
\* and are put in order by the second, against the order of the roster
C18_Witness ==
  /\ LexicographicRead
  /\ Len(KeysRead) = 2
  /\ \E i, j \in 1..Len(response.rows) :
       /\ i < j
       /\ response.rows[i].points = response.rows[j].points
       /\ response.rows[i].participant_id > response.rows[j].participant_id
       /\ FirstOf(Differing(response.rows[i], response.rows[j]) \cup {3}) = 2

\* the keys of the tiebreak table that the comparator has no case for
TableKeys == {"buchholz_cut2", "progressive", "games_as_black", "wins_with_black"}

\* the points participant p holds in the rounds numbered up to n
PointsUpTo(p, n) ==
  SumSeq([i \in 1..Len(matches) |->
     IF rounds[matches[i].round_id].number > n THEN 0
     ELSE (IF matches[i].white = p THEN matches[i].score_white ELSE 0)
          + (IF matches[i].black = p THEN matches[i].score_black ELSE 0)])

\* the values of the table for participant p: Buchholz without the two
\* smallest opponent scores, the sum of the running totals after each round,
\* the rounds played as black, the wins as black
TableValue(k, p) ==
  IF k = "buchholz_cut2"
  THEN LET scores == SortAscending(collectOpponentScores(Standings[p], Standings))
       IN SumSeq(SubSeq(scores, 3, Len(scores)))
  ELSE IF k = "progressive"
  THEN SumSeq([n \in 1..Len(rounds) |-> PointsUpTo(p, rounds[n].number)])
  ELSE IF k = "games_as_black"
  THEN Cardinality({i \in 1..Len(matches) : matches[i].black = p})
  ELSE Cardinality({i \in 1..Len(matches) :
                      matches[i].black = p /\ matches[i].result = "black"})

\* C19: every key of the tiebreak table takes effect.  Under a key list that
\* is one of buchholz_cut2, progressive, games_as_black, wins_with_black, two
\* players level on points whose values for the key differ stand in the
\* order of the value, the larger first, and the rows report the value under
\* the key.
C19_TableKeysTakeEffect ==
  (StandingsRead /\ Len(KeysRead) = 1 /\ KeysRead[1] \in TableKeys)
  => \A i, j \in 1..Len(response.rows) :
       (/\ response.rows[i].points = response.rows[j].points
        /\ TableValue(KeysRead[1], response.rows[i].participant_id)
             > TableValue(KeysRead[1], response.rows[j].participant_id))
       => /\ i < j
          /\ KeysRead[1] \in DOMAIN response.rows[i].tiebreakers
          /\ response.rows[i].tiebreakers[KeysRead[1]]
               = TableValue(KeysRead[1], response.rows[i].participant_id)

\* the points participant p scored in its games against participant q
MutualPoints(p, q) ==
  SumSeq([i \in 1..Len(matches) |->
     IF matches[i].white = p /\ matches[i].black = q THEN matches[i].score_white
     ELSE IF matches[i].white = q /\ matches[i].black = p THEN matches[i].score_black
     ELSE 0])

\* the players a and b are level on points and on every key of the list
\* before position n
LevelBefore(a, b, n) ==
  /\ a.score = b.score
  /\ \A m \in 1..(n - 1) : CompareOnKey(a, b, KeysRead[m]) = 0

\* what the comparator answers for a and b under the key list of the read
ComparatorRead(a, b, players) ==
  comparePlayersWithTiebreakers(a, b, KeysRead, players)

\* the direct encounter at position n of the key list decides between a and
\* b as their games against each other went
EncounterDecides(a, b, n, players) ==
  IF MutualPoints(a.participantId, b.participantId)
       > MutualPoints(b.participantId, a.participantId)
  THEN ComparatorRead(a, b, players) < 0
  ELSE IF MutualPoints(a.participantId, b.participantId)
            < MutualPoints(b.participantId, a.participantId)
  THEN ComparatorRead(a, b, players) > 0
  ELSE ComparatorRead(a, b, players)
         = CompareOnKeys(a, b, SubSeq(KeysRead, n + 1, Len(KeysRead)))

EncounterDecidesAll(players) ==
  \A n \in 1..Len(KeysRead) :
    KeysRead[n] \in HeadToHeadKeys
    => \A p, q \in DOMAIN players :
         (p # q /\ LevelBefore(players[p], players[q], n))
         => EncounterDecides(players[p], players[q], n, players)

\* C20: direct encounter.  Of two players level on points and on every key
\* before direct_encounter, the comparator puts first the one who scored
\* more in their games against each other; when they never met or split
\* their games the key decides nothing.  This holds for every history, also
\* when one of them had a bye before their game.
C20_DirectEncounter ==
  StandingsRead
  => EncounterDecidesAll(calculateAllTiebreakers(registered, active, rounds, matches))

\* ----- histories with forfeits -----

TagParticipants == 3

\* the result tags of a game lost by forfeit
ForfeitResults == {"forfeit_white", "forfeit_black"}

\* a game is recorded as lost by forfeit: forfeit_white is white losing,
\* forfeit_black is black losing; the winner's and the loser's points stored
EnterForfeit(i, res) ==
  /\ matches[i].result = "not_played"
  /\ matches' = [matches EXCEPT
       ![i].result = res,
       ![i].score_white = IF res = "forfeit_black" THEN PointsWin ELSE PointsLoss,
       ![i].score_black = IF res = "forfeit_white" THEN PointsWin ELSE PointsLoss]
  /\ response' = Idle
  /\ lastCall' = NoCall
  /\ UNCHANGED <<registered, active, rating, byePointsCfg, plannedRounds, rounds,
                 engineCalls>>

InitTags ==
  /\ \E n \in 2..TagParticipants : registered = 1..n
  /\ active = [p \in Ids |-> TRUE]
  /\ rating = RatingProfile
  /\ byePointsCfg \in ByePointsValues
  /\ plannedRounds = MaxRounds
  /\ rounds = <<>>
  /\ matches = <<>>
  /\ response = Idle
  /\ engineCalls = <<>>
  /\ lastCall = NoCall

NextTags ==
  \/ StartTour
  \/ \E i \in 1..Len(matches), res \in Results : EnterResult(i, res)
  \/ \E i \in 1..Len(matches), res \in ForfeitResults : EnterForfeit(i, res)
  \/ \E p \in registered : Withdraw(p)
  \/ GetStandings(<<>>)

SpecTags == InitTags /\ [][NextTags]_vars

\* the row of participant p in the rows of the read
RowOf(p) == response.rows[CHOOSE i \in RowsOf(p) : TRUE]

\* the bye rows of participant p
ByesOf(p) == {i \in 1..Len(matches) : matches[i].white = p /\ matches[i].black = 0}

\* the sum over the rounds of participant p: the adjusted score of the
\* opponent of each game, the stored virtual opponent scores of the byes
OpponentSum(p, standings) ==
  SumSeq([i \in 1..Len(matches) |->
            IF i \in GamesOf(p) THEN standings[OpponentIn(p, i)].adjustedScore ELSE 0])
  + SumSeq(standings[p].virtualOpponentScores)

BuchholzSums(standings) ==
  \A p \in registered :
    /\ RowOf(p).tiebreakers.buchholz = OpponentSum(p, standings)
    /\ Len(standings[p].virtualOpponentScores) = Cardinality(ByesOf(p))
    /\ Len(collectOpponentScores(standings[p], standings))
         = Cardinality(GamesOf(p)) + Cardinality(ByesOf(p))

\* C21: Buchholz.  The buchholz reported for a player is the sum over the
\* player's rounds of the opponent's adjusted score for a game (forfeits
\* included) and of the stored virtual opponent score for a bye; every round
\* gives exactly one term, whatever the order of byes and games.
C21_Buchholz == StandingsRead => BuchholzSums(Standings)

\* a read in which a player had a bye before a game lost by forfeit
C21_Witness ==
  /\ StandingsRead
  /\ \E p \in registered, i, j \in 1..Len(matches) :
       /\ i \in ByesOf(p)
       /\ j \in GamesOf(p)
       /\ i < j
       /\ matches[j].result \in ForfeitResults
       /\ RowOf(p).tiebreakers.buchholz > 0

\* the opponent terms left once the smallest and the largest are taken away
WithoutExtremes(scores) == SubSeq(SortAscending(scores), 2, Len(scores) - 1)

MedianIsCut(standings) ==
  \A p \in registered :
    RowOf(p).tiebreakers.medianBuchholz
      = SumSeq(WithoutExtremes(collectOpponentScores(standings[p], standings)))

\* C22: median Buchholz.  For every player and every number of opponent
\* terms, one and two included, the median_buchholz reported is the Buchholz
\* without its smallest and its largest opponent score.
C22_MedianBuchholz == StandingsRead => MedianIsCut(Standings)

\* the result of game i of matches for participant p, as buildStandings
\* records it
OwnResult(p, i) ==
  IF matches[i].white = p THEN WhiteResult(matches[i].result)
  ELSE BlackResult(matches[i].result)

\* the Sonneborn-Berger sum of participant p in quarter points: each game
\* weighted by its own result
WeightedSum(p, standings) ==
  SumSeq([i \in 1..Len(matches) |->
     IF i \notin GamesOf(p) THEN 0
     ELSE IF OwnResult(p, i) \in {"win", "forfeit_win"}
     THEN 2 * standings[OpponentIn(p, i)].adjustedScore
     ELSE IF OwnResult(p, i) = "draw"
     THEN standings[OpponentIn(p, i)].adjustedScore
     ELSE 0])

SonnebornBergerSums(standings) ==
  \A p \in registered :
    RowOf(p).tiebreakers.sonnebornBerger = WeightedSum(p, standings)

\* C23: Sonneborn-Berger.  The sonneborn_berger reported for a player is the
\* sum over the player's games of the opponent's adjusted score for a win or
\* a forfeit win, half of it for a draw and nothing for a loss, each game
\* weighted by its own result, also when a bye came before a game.
C23_SonnebornBerger == StandingsRead => SonnebornBergerSums(Standings)

\* the number of the round of row i of matches
RoundOf(i) == rounds[matches[i].round_id].number

\* n: the highest round number in the history
HighestRound ==
  IF matches = <<>> THEN 0
  ELSE CHOOSE n \in {RoundOf(i) : i \in 1..Len(matches)} :
         \A i \in 1..Len(matches) : RoundOf(i) <= n

\* S_before_round + (1 - SfPR) + 0.5 * (n - R) for the bye row i of
\* participant p, in half points
ExpectedSvon(p, i) ==
  PointsUpTo(p, RoundOf(i) - 1) + (2 - matches[i].score_white)
    + (HighestRound - RoundOf(i))

\* the place of the bye row i among the byes of participant p by round
ByeRank(p, i) == 1 + Cardinality({j \in ByesOf(p) : RoundOf(j) < RoundOf(i)})

\* the virtual opponent scores stored in standings are the expected ones
SvonStored(standings) ==
  \A p \in registered :
    /\ Len(standings[p].virtualOpponentScores) = Cardinality(ByesOf(p))
    /\ \A i \in ByesOf(p) :
         standings[p].virtualOpponentScores[ByeRank(p, i)] = ExpectedSvon(p, i)

MaxPermuted == 4

\* the orders in which the n match rows are read: every order of up to
\* MaxPermuted rows, the rotations and the reverse order of more
ReturnOrders(n) ==
  IF n <= MaxPermuted THEN Permutations(1..n)
  ELSE {[i \in 1..n |-> ((i + k - 1) % n) + 1] : k \in 0..(n - 1)}
         \cup {[i \in 1..n |-> n + 1 - i]}

\* C24: virtual opponent score.  For every bye of every player the stored
\* Svon is S_before_round + (1 - SfPR) + 0.5 * (n - R), with S_before_round
\* the points of the rounds numbered below R, SfPR the points of the bye, n
\* the highest round number of the history and R the round of the bye, in
\* whatever order the match rows are read.
C24_VirtualOpponent ==
  StandingsRead
  => \A f \in ReturnOrders(Len(matches)) :
       SvonStored(buildStandings(registered, active, rounds, Reordered(matches, f)))

\* a read after three rounds in which a player who had scored before has the
\* bye of a round that is not the last
C24_Witness ==
  /\ StandingsRead
  /\ HighestRound = 3
  /\ \E p \in registered : \E i \in ByesOf(p) :
       /\ RoundOf(i) = 2
       /\ PointsUpTo(p, 1) > 0
       /\ matches[i].score_white = 1

\* what row i of matches adds to the adjusted score of participant p: half a
\* point for a forfeit, half a point for a bye of a point or more, the
\* stored points otherwise
Contribution(p, i) ==
  IF p \notin PairMembers(matches[i]) THEN 0
  ELSE IF matches[i].black = 0
  THEN (IF matches[i].score_white >= 2 THEN 1 ELSE matches[i].score_white)
  ELSE IF matches[i].result \in ForfeitResults THEN 1
  ELSE IF matches[i].white = p THEN matches[i].score_white
  ELSE matches[i].score_black

AdjustedLaw(standings) ==
  \A p \in registered :
    /\ standings[p].score = StoredPoints(p)
    /\ standings[p].adjustedScore
         = SumSeq([i \in 1..Len(matches) |-> Contribution(p, i)])

\* C25: adjusted score law.  For every player the score is the sum of the
\* points stored in the player's rows, and the adjusted score is the sum of
\* the stored points for a win, a loss, a draw or a tag that is not known,
\* of exactly half a point for a forfeit win or loss, and for a bye of half
\* a point when the bye gave a point or more and of the bye points otherwise.
C25_AdjustedScoreLaw == StandingsRead => AdjustedLaw(Standings)

\* a read of a history with a full-point bye, a game won by forfeit and a
\* game without result
C25_Witness ==
  /\ StandingsRead
  /\ \E i, j, k \in 1..Len(matches) :
       /\ matches[i].black = 0 /\ matches[i].score_white = 2
       /\ matches[j].result \in ForfeitResults
       /\ matches[k].result = "not_played"

\* ----- C26: the colours of a pair -----

\* the summed color penalty of white playing white and black playing black
SummedPenalty(white, black) ==
  getColorPenalty(white, "w") + getColorPenalty(black, "b")

\* the arrangement of a and b is the cheaper one; at equal penalties the
\* higher-rated of the two has the color of their own preference, and white
\* when both are neutral
ResolvedAsStated(a, b) ==
  LET arrangement == getColorArrangement(a, b)
      white == arrangement.white
      black == arrangement.black
      higher == IF a.rating > b.rating THEN a ELSE b
  IN /\ {white.id, black.id} = {a.id, b.id}
     /\ arrangement.penalty = SummedPenalty(white, black)
     /\ SummedPenalty(white, black) <= SummedPenalty(black, white)
     /\ (SummedPenalty(white, black) = SummedPenalty(black, white)
         /\ a.rating # b.rating)
        => /\ higher.colorPreference < 0 => black.id = higher.id
           /\ higher.colorPreference > 0 => white.id = higher.id
           /\ (a.colorPreference = 0 /\ b.colorPreference = 0)
              => white.id = higher.id

ResolvedAll(players) ==
  \A i, j \in 1..Len(players) :
    i # j => ResolvedAsStated(players[i], players[j])

\* C26: pair color resolution.  For every two players of an engine call, in
\* either order, getColorArrangement returns the assignment with the lower
\* summed color penalty; at equal penalties the higher-rated player receives
\* the color of their own preference (black when both prefer black), and
\* white when both are neutral.
C26_ColorResolution == EngineCalled => ResolvedAll(CallPlayers)

\* ----- C27: the color preference of a player -----

\* the rounds of a color history
MaxColorRounds == 6

\* what a participant did in a round: white, black, or the bye (null)
RoundColors == {"w", "b", "none"}

ColorHistories == UNION {[1..n -> RoundColors] : n \in 0..MaxColorRounds}

\* the match rows of participant 1 with the colors given, round after round,
\* against a new opponent each round, every game drawn
HistoryRows(colors) ==
  [r \in 1..Len(colors) |->
     [round_id |-> r,
      white |-> IF colors[r] = "b" THEN r + 1 ELSE 1,
      black |-> IF colors[r] = "b" THEN 1 ELSE IF colors[r] = "w" THEN r + 1 ELSE 0,
      board_no |-> 1,
      result |-> IF colors[r] = "none" THEN "bye" ELSE "draw",
      score_white |-> IF colors[r] = "none" THEN byePointsOf(1) ELSE PointsDraw,
      score_black |-> IF colors[r] = "none" THEN 0 ELSE PointsDraw]]

\* the engine builds the Player of participant p from the rows of the rounds
\* before the next one
PlayerBuilt(p) ==
  [op |-> "player", round |-> Len(rounds) + 1, status |-> 0,
   outcome |-> "none", residual |-> {}, invoked |-> FALSE, repeat |-> FALSE,
   found |-> 0, fault |-> "none",
   player |-> Player(p, rating[p], registered,
                     AllMatches(rounds, matches, Len(rounds) + 1))]

BuildPlayer(p) ==
  /\ response.op # "player"
  /\ response' = PlayerBuilt(p)
  /\ UNCHANGED <<registered, active, rating, byePointsCfg, plannedRounds, rounds,
                 matches, engineCalls, lastCall>>

InitColors ==
  /\ registered = 1..(MaxColorRounds + 1)
  /\ active = [p \in Ids |-> TRUE]
  /\ rating = RatingProfile
  /\ byePointsCfg = 1
  /\ plannedRounds = 0
  /\ \E colors \in ColorHistories :
       /\ rounds = [r \in 1..Len(colors) |-> [number |-> r, status |-> "paired"]]
       /\ matches = HistoryRows(colors)
  /\ response = Idle
  /\ engineCalls = <<>>
  /\ lastCall = NoCall

NextColors == BuildPlayer(1)

SpecColors == InitColors /\ [][NextColors]_vars

\* the colors of the rounds of a history, byes left out
ColorsPlayed(rs) == SelectSeq([i \in 1..Len(rs) |-> rs[i].color], LAMBDA c : c # "none")

\* the case table of the color preference, read in the listed order
PreferenceTable(rs) ==
  LET n == Len(rs)
      played == ColorsPlayed(rs)
      color_diff == CountColor(rs, "w") - CountColor(rs, "b")
      last_two_same_color ==
        IF n >= 2 /\ rs[n].color = rs[n - 1].color /\ rs[n].color # "none"
        THEN rs[n].color ELSE "none"
      last_color == IF played = <<>> THEN "none" ELSE played[Len(played)]
  IN IF color_diff < 0 - 1 \/ last_two_same_color = "b" THEN 2
     ELSE IF color_diff > 1 \/ last_two_same_color = "w" THEN 0 - 2
     ELSE IF color_diff = 0 - 1 THEN 1
     ELSE IF color_diff = 1 THEN 0 - 1
     ELSE IF last_color = "b" THEN 1
     ELSE IF last_color = "w" THEN 0 - 1
     ELSE 0

\* C27: color preference.  For every color history the preference of the
\* player built from it is the value of the case table read in the listed
\* order: +2 if color_diff < -1 or the last two rounds were both black; else
\* -2 if color_diff > +1 or the last two rounds were both white; else +1 / -1
\* for color_diff = -1 / +1; else +1 if the last color played was black, -1
\* if it was white, 0 if the player has played no color.
C27_ColorPreference ==
  response.op = "player"
  => response.player.colorPreference
       = PreferenceTable(PlayerRounds(response.player.id, matches))

\* ----- C28: two pairing requests for the same round in flight -----

\* the requests in flight
Requests == {1, 2}

\* the response of the route while its requests are between two awaits:
\* request q is at requests[q].pc and holds the pairs of its engine call
InFlight(roundId, requests) ==
  [op |-> "pairings", round |-> roundId, status |-> 0, outcome |-> "in_flight",
   residual |-> {}, invoked |-> FALSE, repeat |-> FALSE, found |-> 0,
   fault |-> "none", requests |-> requests]

Received == [pc |-> "check", pairs |-> <<>>, status |-> 0, found |-> 0]

At(q, pc) == response.outcome = "in_flight" /\ response.requests[q].pc = pc

Moved(q, request) ==
  [response EXCEPT !.requests = [response.requests EXCEPT ![q] = request]]

\* const existing = await listMatches(roundId) and the checks of the route
\* before the engine
CheckExisting(q) ==
  /\ At(q, "check")
  /\ LET existing == listMatches(matches, response.round)
         request == response.requests[q]
     IN response' = Moved(q,
          IF AlreadyPaired(existing)
          THEN [request EXCEPT !.pc = "done", !.status = 200, !.found = Len(existing)]
          ELSE IF Cardinality(registered) < 2
          THEN [request EXCEPT !.pc = "done", !.status = 400]
          ELSE [request EXCEPT !.pc = "engine"])
  /\ UNCHANGED <<registered, active, rating, byePointsCfg, plannedRounds, rounds,
                 matches, engineCalls, lastCall>>

\* generateSwissPairings up to the pairings of the round: the reads of the
\* round, the tournament, the participants and the history, then the pairing
RunEngine(q, whiteFirst) ==
  /\ At(q, "engine")
  /\ LET e == Pairings(rounds, matches, registered, active, rating,
                       response.round, whiteFirst)
     IN response' = Moved(q, [response.requests[q] EXCEPT
                                !.pc = "insert", !.pairs = e.pairs])
  /\ engineCalls' = Called(response.round, {p \in registered : active[p]})
  /\ UNCHANGED <<registered, active, rating, byePointsCfg, plannedRounds, rounds,
                 matches, lastCall>>

\* await supabaseAdmin.from('matches').insert(insertPayload).select()
InsertBatch(q) ==
  /\ At(q, "insert")
  /\ matches' = matches \o InsertPayload(response.requests[q].pairs,
                                         response.round, byePointsOf(byePointsCfg))
  /\ response' = Moved(q, [response.requests[q] EXCEPT !.pc = "mark"])
  /\ UNCHANGED <<registered, active, rating, byePointsCfg, plannedRounds, rounds,
                 engineCalls, lastCall>>

\* await supabaseAdmin.from('rounds').update({ status: 'paired' })
MarkRound(q) ==
  /\ At(q, "mark")
  /\ rounds' = [rounds EXCEPT ![response.round].status = "paired"]
  /\ response' = Moved(q, [response.requests[q] EXCEPT !.pc = "respond"])
  /\ UNCHANGED <<registered, active, rating, byePointsCfg, plannedRounds, matches,
                 engineCalls, lastCall>>

\* the end of the route: 502 when the engine returned no match, else the
\* rows of the round read again and returned with 201
Respond(q) ==
  /\ At(q, "respond")
  /\ LET request == response.requests[q]
     IN response' = Moved(q,
          IF request.pairs = <<>>
          THEN [request EXCEPT !.pc = "done", !.status = 502]
          ELSE [request EXCEPT !.pc = "done", !.status = 201,
                               !.found = Len(listMatches(matches, response.round))])
  /\ UNCHANGED <<registered, active, rating, byePointsCfg, plannedRounds, rounds,
                 matches, engineCalls, lastCall>>

\* round 1 is created and two requests for its pairings have arrived
InitConcurrent ==
  /\ \E n \in 2..MaxParticipants : registered = 1..n
  /\ active = [p \in Ids |-> TRUE]
  /\ rating = RatingProfile
  /\ byePointsCfg \in ByePointsValues
  /\ plannedRounds = MaxRounds
  /\ rounds = <<[number |-> 1, status |-> "pending"]>>
  /\ matches = <<>>
  /\ response = InFlight(1, [q \in Requests |-> Received])
  /\ engineCalls = <<>>
  /\ lastCall = NoCall

NextConcurrent ==
  \E q \in Requests :
    \/ CheckExisting(q)
    \/ \E whiteFirst \in Coins(1) : RunEngine(q, whiteFirst)
    \/ InsertBatch(q)
    \/ MarkRound(q)
    \/ Respond(q)

SpecConcurrent == InitConcurrent /\ [][NextConcurrent]_vars

\* both requests have returned
AllReturned ==
  response.outcome = "in_flight" /\ \A q \in Requests : response.requests[q].pc = "done"

\* C28: concurrent pairing requests.  For every interleaving of two pairing
\* requests for the same round, once both have returned each active
\* participant is in at most one stored match of the round: the round holds
\* the pairing of a single generation.
C28_SingleGeneration ==
  AllReturned =>
    \A p \in registered :
      active[p] => Appearances(p, listMatches(matches, response.round)) <= 1

\* ----- C29: the pass over the residual floaters -----

\* the results of a tournament in which black never wins
DrawnResults == {"white", "draw"}

\* the longer tournament with drawn games
NextDrawn ==
  \/ StartTour
  \/ \E i \in 1..Len(matches), res \in DrawnResults : EnterResult(i, res)

SpecDrawn == InitLong /\ [][NextDrawn]_vars

\* C29: maximality of the residual floater pass.  When the pairing of a
\* later round returns leaving some active players in no pair, every two of
\* the players left unpaired have already met: the pass does not stop at a
\* floater without a legal partner while other floaters could still be
\* paired together.
C29_ResidualPassMaximal ==
  (EngineCalled /\ lastCall.roundNo >= 2)
  => \A i, j \in 1..Len(lastCall.unpaired) :
       i < j => {lastCall.unpaired[i], lastCall.unpaired[j]}
                  \in PlayedBefore(lastCall.roundNo)

\* ----- C30: the comparator called both ways -----

Sign(x) == IF x > 0 THEN 1 ELSE IF x < 0 THEN 0 - 1 ELSE 0

\* the comparator answers with opposite signs for (a, b) and for (b, a)
OppositeSigns(a, b, players) ==
  Sign(ComparatorRead(a, b, players)) = 0 - Sign(ComparatorRead(b, a, players))

AntisymmetricOn(players) ==
  \A p, q \in DOMAIN players :
    p # q => OppositeSigns(players[p], players[q], players)

\* C30: comparator antisymmetry.  For every two standings entries P and Q of
\* the same history and every tiebreak key list, the comparator called on
\* (P, Q) and on (Q, P) answers with opposite signs: both 0, or one negative
\* and one positive.
C30_ComparatorAntisymmetry ==
  StandingsRead
  => AntisymmetricOn(calculateAllTiebreakers(registered, active, rounds, matches))

====
